---- MODULE Spec2Model ----
(***************************************************************************)
(* A model of the gsmarena-scraper pipeline: the Review Lister             *)
(* (phone_review_url_scraper.py), the Spec Extractor                       *)
(* (phone_specs_scraper.py) and the Image Fetcher (phone_image_scraper.py).*)
(* Text is a sequence of one-character strings; the regular expressions of *)
(* the source are operators that scan such sequences left to right.        *)
(***************************************************************************)
EXTENDS Integers, Sequences, FiniteSets, TLC

VARIABLES
    \* ---- text functions of phone_image_scraper.py (argument, results) ----
    input,        \* the string handed to the function under study
    npieces,      \* how many pieces the input was assembled from
    output,       \* the function's result (None before the call)
    output2,      \* the result of the second application (clean_phone_name)
    fpc,          \* "build" | "called" | "recalled"
    \* ---- Review Lister: scrape_gsmarena_reviews ----
    start_page,         \* argument
    max_pages,          \* argument; 0 stands for None
    delay,              \* argument
    page_num,           \* local of the loop
    consecutive_empty,  \* local of the loop
    all_reviews,        \* the accumulated records
    fetched,            \* history: the requests made, with what came back
    sleeps,             \* history: the time.sleep calls made
    lpc,                \* "idle" | "loop" | "done" | "returned"
    \* ---- Image discovery: scrape_images_from_pictures_page ----
    nodes,        \* the pictures page: its image and link elements, in order
    has_list,     \* does the page hold a div with id pictures-list
    max_images,   \* argument
    fetch_ok,     \* did the request and the parse go through
    found,        \* the list returned (None before the call)
    dpc,          \* "idle" | "build" | "called"
    \* ---- Image Fetcher: process_phones_from_csv, download_phone_images ----
    phones,                \* the rows read from the CSV, after the filters
    max_images_per_phone,  \* argument
    phone_delay,           \* argument delay
    idx,                   \* the loop index of process_phones_from_csv (1-based)
    results,               \* the manifest: phone_name -> entry
    successful,            \* counter
    failed,                \* counter
    clean_info,            \* download_phone_images.clean_info
    image_urls,            \* download_phone_images.image_urls
    img_idx,               \* the loop index of download_phone_images (1-based)
    downloaded_paths,      \* download_phone_images.downloaded_paths
    files,                 \* the file system: path -> "full" | "empty" | "partial"
    attempts,              \* history: the download_image calls, what each wrote
                           \* and what it returned
    calls,                 \* history: what download_phone_images found and returned
    pauses,                \* history: the time.sleep calls
    bpc,                   \* "idle" | "start" | "phone" | "images" | "returned" |
                           \* "read_failed" | "raised_before_loop" | "raised"
    \* ---- Spec Extractor: scrape_specs_from_csv ----
    phone_data,            \* the rows read from the CSV, after the filters
    xidx,                  \* the loop index (1-based)
    all_specifications,    \* the accumulated records
    output_file,           \* the content of the JSON output file
    lookups,               \* history: per phone, the spec URL and the specifications found
    xsleeps,               \* history: the time.sleep calls
    xpc,                   \* "idle" | "loop" | "returned"
    \* ---- Review Lister: save_to_json, save_to_csv ----
    reviews_data,          \* the records handed to the two functions
    json_file,             \* the content of the JSON file
    csv_file,              \* the content of the CSV file
    json_saved,            \* what save_to_json returned
    csv_saved,             \* what save_to_csv returned
    svpc,                  \* "idle" | "scraped" | "json" | "saved"
    \* ---- Spec Extractor: scrape_specifications on one page ----
    scan_page,             \* the specification page
    scan_result,           \* the mapping returned
    alternate_ran,         \* was the alternate extraction attempted
    scpc                   \* "idle" | "start" | "called"

textVars == <<input, npieces, output, output2, fpc>>
listerVars == <<start_page, max_pages, delay, page_num, consecutive_empty,
                all_reviews, fetched, sleeps, lpc>>
discoveryVars == <<nodes, has_list, max_images, fetch_ok, found, dpc>>
fetcherVars == <<phones, max_images_per_phone, phone_delay, idx, results,
                 successful, failed, clean_info, image_urls, img_idx,
                 downloaded_paths, files, attempts, calls, pauses, bpc>>
extractorVars == <<phone_data, xidx, all_specifications, output_file, lookups,
                   xsleeps, xpc>>
saveVars == <<reviews_data, json_file, csv_file, json_saved, csv_saved, svpc>>
scanVars == <<scan_page, scan_result, alternate_ran, scpc>>
vars == <<textVars, listerVars, discoveryVars, fetcherVars, extractorVars, saveVars,
          scanVars>>

None == "None"

\* ------------------------------------------------------------------------
\* Characters
\* ------------------------------------------------------------------------
LowerLetters == <<"a","b","c","d","e","f","g","h","i","j","k","l","m",
                  "n","o","p","q","r","s","t","u","v","w","x","y","z">>
UpperLetters == <<"A","B","C","D","E","F","G","H","I","J","K","L","M",
                  "N","O","P","Q","R","S","T","U","V","W","X","Y","Z">>
Digits == {"0","1","2","3","4","5","6","7","8","9"}

\* A character is a string: the character itself up to U+00FF, and the code
\* point ("U+0131") above it.  The characters above U+00FF of the model are
\* the white space, the letters that str.lower() or re.IGNORECASE relate to
\* a character below U+0100, and the combining dot U+0307.
\* The letters of U+0080..U+00FF that str.lower() changes, and what it
\* changes them to
UpperLatin == <<"À","Á","Â","Ã","Ä","Å","Æ","Ç","È","É","Ê","Ë","Ì",
              "Í","Î","Ï","Ð","Ñ","Ò","Ó","Ô","Õ","Ö","Ø","Ù","Ú",
              "Û","Ü","Ý","Þ">>
LowerLatin == <<"à","á","â","ã","ä","å","æ","ç","è","é","ê","ë","ì",
              "í","î","ï","ð","ñ","ò","ó","ô","õ","ö","ø","ù","ú",
              "û","ü","ý","þ">>
\* the other characters above U+007F that str.isalnum() accepts: letters
\* without an upper-case form in the range, superscripts and fractions
OtherLatinWord == {"ª","µ","º","ß","ÿ","²","³","¹","¼","½","¾"}

Range(s) == {s[i] : i \in DOMAIN s}

\* the letters above U+00FF with a lower-case form below U+0100
UpperOther == <<"U+0130", "U+0178", "U+1E9E", "U+212A", "U+212B">>
LowerOther == <<"i", "ÿ", "ß", "k", "å">>

\* the lower-case form (the simple lower-case mapping) of every character
\* that has one
LowerOf ==
    [c \in Range(UpperLetters) \cup Range(UpperLatin) \cup Range(UpperOther) |->
        IF c \in Range(UpperLetters)
        THEN LowerLetters[CHOOSE i \in DOMAIN UpperLetters : UpperLetters[i] = c]
        ELSE IF c \in Range(UpperLatin)
        THEN LowerLatin[CHOOSE i \in DOMAIN UpperLatin : UpperLatin[i] = c]
        ELSE LowerOther[CHOOSE i \in DOMAIN UpperOther : UpperOther[i] = c]]

\* the lower-case form of one character, as the re module takes it
LowerChar(c) == IF c \in DOMAIN LowerOf THEN LowerOf[c] ELSE c

\* str.lower(): U+0130 becomes two characters, 'i' and the combining dot
RECURSIVE Lower(_)
Lower(s) ==
    IF "U+0130" \notin Range(s) THEN [i \in DOMAIN s |-> LowerChar(s[i])]
    ELSE (IF s[1] = "U+0130" THEN <<"i", "U+0307">> ELSE <<LowerChar(s[1])>>)
             \o Lower(Tail(s))

\* the regular-expression class \s of a str pattern and the characters of
\* str.strip(): those of str.isspace(), which are the five with an escape,
\* U+000B, U+001C to U+001F, U+0085, U+00A0 and seventeen above U+00FF
SpaceChars == {" ", "\t", "\n", "\r", "\f", "", "", "", "", "", "", " ",
               "U+1680", "U+2000", "U+2001", "U+2002", "U+2003", "U+2004",
               "U+2005", "U+2006", "U+2007", "U+2008", "U+2009", "U+200A",
               "U+2028", "U+2029", "U+202F", "U+205F", "U+3000"}
IsSpace(c) == c \in SpaceChars

\* the regular-expression class \w
WordChars ==
    Range(LowerLetters) \cup Range(UpperLetters) \cup Digits \cup {"_"}
        \cup Range(UpperLatin) \cup Range(LowerLatin) \cup OtherLatinWord
        \cup Range(UpperOther) \cup {"U+0131", "U+017F"}
IsWordChar(c) == c \in WordChars

\* the class [<>:"/\\|?*] of sanitize_filename
InvalidChars == {"<", ">", ":", "\"", "/", "\\", "|", "?", "*"}

\* s[i:] and s[:n] of Python (1-based i here)
From(s, i) == IF i > Len(s) THEN <<>> ELSE SubSeq(s, i, Len(s))
Take(s, n) == IF n >= Len(s) THEN s ELSE SubSeq(s, 1, n)

\* the characters that a lower-case letter p of a pattern stands for under
\* re.IGNORECASE, in lower case: p, and for 'i' and 's' the dotless i and
\* the long s
IgnoreCaseClass(p) ==
    IF p = "i" THEN {"i", "U+0131"}
    ELSE IF p = "s" THEN {"s", "U+017F"}
    ELSE {p}

\* does s hold the literal w at position i, ignoring case (re.IGNORECASE);
\* w is a lower-case ASCII word
MatchesAtCI(s, i, w) ==
    /\ i + Len(w) - 1 <= Len(s)
    /\ \A k \in 1..Len(w) : LowerChar(s[i + k - 1]) \in IgnoreCaseClass(w[k])

\* the least index of the set S, or dflt when S is empty
FirstOf(S, dflt) ==
    IF S = {} THEN dflt ELSE CHOOSE j \in S : \A k \in S : j <= k

\* the greatest index of the set S, or dflt when S is empty
LastOf(S, dflt) ==
    IF S = {} THEN dflt ELSE CHOOSE j \in S : \A k \in S : k <= j

\* the index after the greedy \s* that starts at i
SkipSpace(s, i) == FirstOf({j \in i..Len(s) : ~IsSpace(s[j])}, Len(s) + 1)

ReviewWord == <<"r","e","v","i","e","w">>
HandsOnWord == <<"h","a","n","d","s","-","o","n">>

\* \s*(?:hands-on\s*)?review\s* tried at position i: the index after the
\* match, or 0 when the pattern does not match there
ReviewMatchEnd(s, i) ==
    LET j == SkipSpace(s, i) IN
    IF MatchesAtCI(s, j, HandsOnWord)
    THEN LET k == SkipSpace(s, j + Len(HandsOnWord)) IN
         IF MatchesAtCI(s, k, ReviewWord)
         THEN SkipSpace(s, k + Len(ReviewWord))
         ELSE 0
    ELSE IF MatchesAtCI(s, j, ReviewWord)
         THEN SkipSpace(s, j + Len(ReviewWord))
         ELSE 0

\* re.sub(r'\s*(?:hands-on\s*)?review\s*', repl, s, flags=re.IGNORECASE)
\* (the leftmost match from i on is replaced, then the scan resumes after it)
RECURSIVE SubReview(_, _, _)
SubReview(s, i, repl) ==
    LET j == FirstOf({k \in i..Len(s) : ReviewMatchEnd(s, k) > 0}, Len(s) + 1) IN
    IF j > Len(s) THEN From(s, i)
    ELSE SubSeq(s, i, j - 1) \o repl \o SubReview(s, ReviewMatchEnd(s, j), repl)

\* \s*&\s* tried at position i
AmpMatchEnd(s, i) ==
    LET j == SkipSpace(s, i) IN
    IF j <= Len(s) /\ s[j] = "&" THEN SkipSpace(s, j + 1) ELSE 0

\* re.sub(r'\s*&\s*', ' and ', s)
RECURSIVE SubAmp(_, _)
SubAmp(s, i) ==
    LET j == FirstOf({k \in i..Len(s) : AmpMatchEnd(s, k) > 0}, Len(s) + 1) IN
    IF j > Len(s) THEN From(s, i)
    ELSE SubSeq(s, i, j - 1) \o <<" ", "a", "n", "d", " ">>
         \o SubAmp(s, AmpMatchEnd(s, j))

\* re.sub(r'[<>:"/\\|?*]', '_', s)
SubInvalid(s) == [i \in DOMAIN s |-> IF s[i] \in InvalidChars THEN "_" ELSE s[i]]

\* re.sub(r'\s+', ' ', s): every maximal run of \s becomes one space, so the
\* first character of a run is kept (as a space) and the rest of it dropped
CollapseSpace(s) ==
    LET positions == [i \in 1..Len(s) |-> i]
        kept == SelectSeq(positions, LAMBDA i : ~IsSpace(s[i]) \/ i = 1 \/ ~IsSpace(s[i - 1]))
    IN  [k \in DOMAIN kept |-> IF IsSpace(s[kept[k]]) THEN " " ELSE s[kept[k]]]

\* str.strip(chars): cs is the set of characters stripped from both ends
Strip(s, cs) ==
    LET a == FirstOf({j \in 1..Len(s) : s[j] \notin cs}, Len(s) + 1)
        b == LastOf({j \in 1..Len(s) : s[j] \notin cs}, 0)
    IN  IF a > b THEN <<>> ELSE SubSeq(s, a, b)

MaxFilenameLen == 100

\* sanitize_filename(filename)
sanitize_filename(filename) ==
    LET f1 == SubReview(filename, 1, <<" ">>)
        f2 == SubAmp(f1, 1)
        f3 == SubInvalid(f2)
        f4 == Strip(CollapseSpace(f3), SpaceChars)
        f5 == Strip(f4, {".", " "})
    IN  IF Len(f5) > MaxFilenameLen THEN Take(f5, MaxFilenameLen) ELSE f5

\* ------------------------------------------------------------------------
\* clean_phone_name
\* ------------------------------------------------------------------------
\* \([^)]*\) tried at position i: the index after the match, or 0
ParenMatchEnd(s, i) ==
    IF s[i] # "(" THEN 0
    ELSE LET j == FirstOf({k \in (i + 1)..Len(s) : s[k] = ")"}, Len(s) + 1) IN
         IF j > Len(s) THEN 0 ELSE j + 1

\* re.sub(r'\([^)]*\)', '', s)
RECURSIVE SubParens(_, _)
SubParens(s, i) ==
    LET j == FirstOf({k \in i..Len(s) : ParenMatchEnd(s, k) > 0}, Len(s) + 1) IN
    IF j > Len(s) THEN From(s, i)
    ELSE SubSeq(s, i, j - 1) \o SubParens(s, ParenMatchEnd(s, j))

\* re.sub(r'[&]', 'and', s)
RECURSIVE SubAmpAnd(_, _)
SubAmpAnd(s, i) ==
    LET j == FirstOf({k \in i..Len(s) : s[k] = "&"}, Len(s) + 1) IN
    IF j > Len(s) THEN From(s, i)
    ELSE SubSeq(s, i, j - 1) \o <<"a", "n", "d">> \o SubAmpAnd(s, j + 1)

\* re.sub(r'[^\w\s-]', '', s)
SubNonWord(s) ==
    SelectSeq(s, LAMBDA c : IsWordChar(c) \/ IsSpace(c) \/ c = "-")

\* str.split(): the maximal runs of non-space characters
RECURSIVE SplitFrom(_, _)
SplitFrom(s, i) ==
    LET a == SkipSpace(s, i)
        b == FirstOf({k \in a..Len(s) : IsSpace(s[k])}, Len(s) + 1)
    IN  IF a > Len(s) THEN <<>>
        ELSE <<SubSeq(s, a, b - 1)>> \o SplitFrom(s, b)
Split(s) == SplitFrom(s, 1)

\* ' '.join(words)
RECURSIVE Join(_)
Join(words) ==
    IF words = <<>> THEN <<>>
    ELSE IF Len(words) = 1 THEN words[1]
    ELSE words[1] \o <<" ">> \o Join(Tail(words))

\* brand_mappings: lower-case brand token -> display form
BrandKeys ==
    << <<"x","i","a","o","m","i">>, <<"s","a","m","s","u","n","g">>,
       <<"v","i","v","o">>, <<"o","n","e","p","l","u","s">>,
       <<"g","o","o","g","l","e">>, <<"a","p","p","l","e">>,
       <<"i","p","h","o","n","e">> >>
BrandValues ==
    << <<"X","i","a","o","m","i">>, <<"S","a","m","s","u","n","g">>,
       <<"v","i","v","o">>, <<"O","n","e","P","l","u","s">>,
       <<"G","o","o","g","l","e">>, <<"A","p","p","l","e">>,
       <<"i","P","h","o","n","e">> >>
InBrandMappings(w) == \E i \in DOMAIN BrandKeys : BrandKeys[i] = w
brand_mappings(w) == BrandValues[CHOOSE i \in DOMAIN BrandKeys : BrandKeys[i] = w]

UnknownBrand == <<"U","n","k","n","o","w","n">>

\* the clean_name local of clean_phone_name (lines 39-47)
clean_name_of(phone_name) ==
    LET c1 == SubReview(phone_name, 1, <<>>)
        c2 == SubParens(c1, 1)
        c3 == SubAmpAnd(c2, 1)
        c4 == SubNonWord(c3)
    IN  Strip(CollapseSpace(c4), SpaceChars)

\* clean_phone_name(phone_name)
clean_phone_name(phone_name) ==
    LET clean_name == clean_name_of(phone_name)
        words == Split(clean_name)
        brand == IF words # <<>> /\ InBrandMappings(Lower(words[1]))
                 THEN brand_mappings(Lower(words[1]))
                 ELSE IF words # <<>> THEN words[1] ELSE UnknownBrand
        model == IF words = <<>> THEN <<>> ELSE Join(Tail(words))
        display_name == IF model # <<>> THEN brand \o <<" ">> \o model ELSE brand
    IN  [safe_name |-> sanitize_filename(clean_name),
         display_name |-> display_name,
         brand |-> brand,
         model |-> model]

\* ------------------------------------------------------------------------
\* construct_pictures_url
\* ------------------------------------------------------------------------
SiteRoot == <<"h","t","t","p","s",":","/","/","w","w","w",".",
              "g","s","m","a","r","e","n","a",".","c","o","m","/">>
DomainMark == <<"g","s","m","a","r","e","n","a",".","c","o","m","/">>
PhpExt == <<".","p","h","p">>
PicturesInfix == <<"-","p","i","c","t","u","r","e","s","-">>

\* does s hold the literal w at position i
MatchesAt(s, i, w) ==
    /\ i + Len(w) - 1 <= Len(s)
    /\ \A k \in 1..Len(w) : s[i + k - 1] = w[k]

\* w in s
Contains(s, w) == \E i \in 1..Len(s) : MatchesAt(s, i, w)

\* s.split(w)[-1]: what follows the last of the non-overlapping occurrences
\* of w that str.split finds scanning from the left
RECURSIVE SplitLast(_, _, _)
SplitLast(s, w, i) ==
    LET j == FirstOf({k \in i..Len(s) : MatchesAt(s, k, w)}, Len(s) + 1) IN
    IF j > Len(s) THEN From(s, i) ELSE SplitLast(s, w, j + Len(w))

\* s.replace(w, '')
RECURSIVE RemoveAll(_, _, _)
RemoveAll(s, w, i) ==
    LET j == FirstOf({k \in i..Len(s) : MatchesAt(s, k, w)}, Len(s) + 1) IN
    IF j > Len(s) THEN From(s, i)
    ELSE SubSeq(s, i, j - 1) \o RemoveAll(s, w, j + Len(w))

\* the index of the last "-" of s, or 0
LastDash(s) == LastOf({j \in 1..Len(s) : s[j] = "-"}, 0)

\* a faulty split, on the FIRST dash (base.split('-', 1))
split_first_dash(base) ==
    LET d == FirstOf({j \in 1..Len(base) : base[j] = "-"}, Len(base) + 1) IN
    IF d > Len(base) THEN <<base>>
    ELSE << Take(base, d - 1), From(base, d + 1) >>

\* base.rsplit('-', 1)
rsplit_dash(base) ==
    LET d == LastDash(base) IN
    IF d = 0 THEN <<base>>
    ELSE << Take(base, d - 1), From(base, d + 1) >>

NoneUrl == <<"None">>

\* construct_pictures_url(spec_url)
construct_pictures_url(spec_url) ==
    LET u == IF Contains(spec_url, DomainMark)
             THEN SplitLast(spec_url, DomainMark, 1)
             ELSE spec_url
        base == RemoveAll(u, PhpExt, 1)
        parts == rsplit_dash(base)
    IN  IF Len(parts) = 2
        THEN SiteRoot \o parts[1] \o PicturesInfix \o parts[2] \o PhpExt
        ELSE NoneUrl

\* ------------------------------------------------------------------------
\* The text functions as state machines: the argument is assembled from
\* pieces, then the function is called on it.
\* ------------------------------------------------------------------------
MaxSanPieces == 3
MaxCleanPieces == 4
MaxUrlPieces == 7

Filler99 == [i \in 1..99 |-> "a"]

SanPieces ==
    { <<"a">>, <<" ">>, <<".">>, <<":">>, <<"&">>, <<"\t">>,
      <<"R","e","v","i","e","w">>, HandsOnWord, Filler99,
      <<"">>, <<"é">>, <<"r","e","v","U+0131","e","w">> }

CleanPieces ==
    { <<"x","i","a","o","m","i">>, <<"V","i","v","o">>, <<"Z">>, <<" ">>,
      <<"(">>, <<")">>, <<"&">>, <<"r","e">>, <<"v","i","e","w">>,
      <<"É">>, <<" ">>, <<"v","U+0131","e","w">> }

UrlPieces == { <<"a">>, <<"-">>, <<"7">>, PhpExt }

TextStart ==
    /\ input = <<>>
    /\ npieces = 0
    /\ output = None
    /\ output2 = None
    /\ fpc = "build"

\* the text variables of a specification that does not use them
TextIdle ==
    /\ input = <<>>
    /\ npieces = 0
    /\ output = None
    /\ output2 = None
    /\ fpc = "idle"

\* the lister variables of a specification that does not use them
ListerIdle ==
    /\ start_page = 1
    /\ max_pages = 0
    /\ delay = 0
    /\ page_num = 1
    /\ consecutive_empty = 0
    /\ all_reviews = <<>>
    /\ fetched = <<>>
    /\ sleeps = <<>>
    /\ lpc = "idle"

\* the discovery variables of a specification that does not use them
DiscoveryIdle ==
    /\ nodes = <<>>
    /\ has_list = FALSE
    /\ max_images = 0
    /\ fetch_ok = TRUE
    /\ found = None
    /\ dpc = "idle"

\* the empty dict
EmptyDict == [x \in {} |-> None]

\* the fetcher variables of a specification that does not use them
FetcherIdle ==
    /\ phones = <<>>
    /\ max_images_per_phone = 0
    /\ phone_delay = 0
    /\ idx = 1
    /\ results = EmptyDict
    /\ successful = 0
    /\ failed = 0
    /\ clean_info = None
    /\ image_urls = <<>>
    /\ img_idx = 1
    /\ downloaded_paths = <<>>
    /\ files = EmptyDict
    /\ attempts = <<>>
    /\ calls = <<>>
    /\ pauses = <<>>
    /\ bpc = "idle"

\* the extractor variables of a specification that does not use them
ExtractorIdle ==
    /\ phone_data = <<>>
    /\ xidx = 1
    /\ all_specifications = <<>>
    /\ output_file = [state |-> "absent", data |-> <<>>]
    /\ lookups = <<>>
    /\ xsleeps = <<>>
    /\ xpc = "idle"

\* the save variables of a specification that does not use them
SaveIdle ==
    /\ reviews_data = <<>>
    /\ json_file = [state |-> "absent", data |-> <<>>]
    /\ csv_file = [state |-> "absent", header |-> <<>>, rows |-> <<>>]
    /\ json_saved = "not called"
    /\ csv_saved = "not called"
    /\ svpc = "idle"

\* the scan variables of a specification that does not use them
ScanIdle ==
    /\ scan_page = None
    /\ scan_result = EmptyDict
    /\ alternate_ran = FALSE
    /\ scpc = "idle"

TextInit ==
    /\ TextStart /\ ListerIdle /\ DiscoveryIdle /\ FetcherIdle /\ ExtractorIdle
    /\ SaveIdle /\ ScanIdle

AppendPiece(pieces, max) ==
    /\ fpc = "build"
    /\ npieces < max
    /\ \E p \in pieces : input' = input \o p
    /\ npieces' = npieces + 1
    /\ UNCHANGED <<output, output2, fpc>>
    /\ UNCHANGED <<listerVars, discoveryVars, fetcherVars, extractorVars,
                   saveVars, scanVars>>

\* --- sanitize_filename ---
SanAppend == AppendPiece(SanPieces, MaxSanPieces)

SanitizeCall ==
    /\ fpc = "build"
    /\ output' = sanitize_filename(input)
    /\ fpc' = "called"
    /\ UNCHANGED <<input, npieces, output2>>
    /\ UNCHANGED <<listerVars, discoveryVars, fetcherVars, extractorVars,
                   saveVars, scanVars>>

SanNext == SanAppend \/ SanitizeCall
SpecSanitize == TextInit /\ [][SanNext]_vars

\* --- clean_phone_name ---
CleanAppend == AppendPiece(CleanPieces, MaxCleanPieces)

CleanCall ==
    /\ fpc = "build"
    /\ output' = clean_phone_name(input)
    /\ fpc' = "called"
    /\ UNCHANGED <<input, npieces, output2>>
    /\ UNCHANGED <<listerVars, discoveryVars, fetcherVars, extractorVars,
                   saveVars, scanVars>>

\* clean_phone_name applied to the display_name of its own result
CleanRecall ==
    /\ fpc = "called"
    /\ output2' = clean_phone_name(output.display_name)
    /\ fpc' = "recalled"
    /\ UNCHANGED <<input, npieces, output>>
    /\ UNCHANGED <<listerVars, discoveryVars, fetcherVars, extractorVars,
                   saveVars, scanVars>>

CleanNext == CleanAppend \/ CleanCall \/ CleanRecall
SpecClean == TextInit /\ [][CleanNext]_vars

\* --- construct_pictures_url ---
\* the site root can only open a URL; the other pieces follow in any order
UrlAppend ==
    \/ AppendPiece(UrlPieces, MaxUrlPieces)
    \/ /\ input = <<>>
       /\ AppendPiece({SiteRoot}, MaxUrlPieces)

UrlCall ==
    /\ fpc = "build"
    /\ output' = construct_pictures_url(input)
    /\ fpc' = "called"
    /\ UNCHANGED <<input, npieces, output2>>
    /\ UNCHANGED <<listerVars, discoveryVars, fetcherVars, extractorVars,
                   saveVars, scanVars>>

UrlNext == UrlAppend \/ UrlCall
SpecUrl == TextInit /\ [][UrlNext]_vars

\* ------------------------------------------------------------------------
\* Properties of the text functions
\* ------------------------------------------------------------------------

\* C3: for every input string, the result of sanitize_filename contains none
\* of the characters < > : " / \ | ? *, has length at most 100, and neither
\* starts nor ends with a space or a dot.
C3_SanitizeSafe ==
    fpc = "called" =>
        /\ \A i \in DOMAIN output : output[i] \notin InvalidChars
        /\ Len(output) <= 100
        /\ output # <<>> =>
              /\ output[1] \notin {" ", "."}
              /\ output[Len(output)] \notin {" ", "."}

\* C4: clean_phone_name is idempotent on its output: applied to the
\* display_name of clean_phone_name(p) it yields the same safe_name as
\* clean_phone_name(p) itself.
C4_CleanIdempotent ==
    fpc = "recalled" => output2.safe_name = output.safe_name

AllIn(s, cs) == \A i \in DOMAIN s : s[i] \in cs
SlugChars == Range(LowerLetters) \cup Digits \cup {"_", "-"}

\* the part of a URL between the site root and the .php suffix, when the URL
\* has that shape
HasSpecPageFrame(u) ==
    /\ Len(u) >= Len(SiteRoot) + Len(PhpExt)
    /\ MatchesAt(u, 1, SiteRoot)
    /\ MatchesAt(u, Len(u) - Len(PhpExt) + 1, PhpExt)
SpecPageMiddle(u) == SubSeq(u, Len(SiteRoot) + 1, Len(u) - Len(PhpExt))

\* C7: for every spec-page URL <site root>/{slug}-{id}.php the result of
\* construct_pictures_url is https://www.gsmarena.com/{slug}-pictures-{id}.php
\* (the slug may itself contain hyphens; the id is numeric), and for every
\* URL that contains no hyphen the result is None.
C7_PicturesUrl ==
    fpc = "called" =>
        /\ HasSpecPageFrame(input) =>
              LET m == SpecPageMiddle(input) IN
              \A d \in DOMAIN m :
                  LET slug == Take(m, d - 1)
                      id == From(m, d + 1)
                  IN  ( /\ m[d] = "-"
                        /\ id # <<>> /\ AllIn(id, Digits)
                        /\ AllIn(slug, SlugChars) )
                      => output = SiteRoot \o slug \o PicturesInfix \o id \o PhpExt
        /\ (\A i \in DOMAIN input : input[i] # "-") => output = NoneUrl

\* C7 witness: a slug that contains a hyphen was given and a URL came back
C7_Witness ==
    /\ fpc = "called"
    /\ input = SiteRoot \o <<"a", "-", "a", "-", "7">> \o PhpExt
    /\ output = SiteRoot \o <<"a", "-", "a">> \o PicturesInfix \o <<"7">> \o PhpExt

\* ------------------------------------------------------------------------
\* Review Lister (phone_review_url_scraper.py)
\* ------------------------------------------------------------------------
MaxPageNum == 7            \* the loop is cut off after this page number
ContentThreshold == 1000   \* len(response.content) > 1000
max_consecutive_empty == 3

StartPages == {1, 2}
MaxPagesChoices == {0, 1, 2, 3}
Delays == {0, 2}

\* What a request for one page can bring back.  status "ok": the response
\* arrived with a 2xx status and was parsed into nrecs records; "http_error":
\* raise_for_status raised; "conn_error": requests.get raised (no body);
\* "parse_error": parsing the body raised.
PageOutcomes ==
    [status : {"ok"}, nrecs : {0, 1}, body_len : {1000, 1001}]
    \cup [status : {"http_error"}, nrecs : {0}, body_len : {1000, 1001}]
    \cup [status : {"parse_error"}, nrecs : {0}, body_len : {1001}]
    \cup [status : {"conn_error"}, nrecs : {0}, body_len : {0}]

\* the records found on page n: each names its page and its place on it
PageRecords(n, page) == [k \in 1..page.nrecs |-> [page |-> n, item |-> k]]

\* scrape_single_page(url, headers): <<reviews, has_content>>
scrape_single_page(n, page) ==
    IF page.status = "ok"
    THEN <<PageRecords(n, page), page.body_len > ContentThreshold>>
    ELSE << <<>>, FALSE >>

\* the URL of the request for page n: the base URL, then the iPage parameter
current_url(n) == IF n = 1 THEN <<"base_url">> ELSE <<"base_url", "?iPage=", n>>

\* a faulty limit test that lets one page more through
limit_reached_late(page, first, limit) ==
    limit # 0 /\ (page - first + 1) > limit

\* line 131: max_pages and (page_num - start_page + 1) >= max_pages
limit_reached(page, first, limit) ==
    limit # 0 /\ (page - first + 1) >= limit

\* a faulty pause that is also taken when the loop is left
sleep_even_when_stopping(slept, seconds, stopping) ==
    IF seconds > 0 THEN Append(slept, seconds) ELSE slept

\* lines 126-141: the time.sleep(delay) of an iteration, which the two
\* break statements skip
sleep_unless_stopping(slept, seconds, stopping) ==
    IF ~stopping /\ seconds > 0 THEN Append(slept, seconds) ELSE slept

ListerStart ==
    /\ start_page \in StartPages
    /\ max_pages \in MaxPagesChoices
    /\ delay \in Delays
    /\ page_num = start_page
    /\ consecutive_empty = 0
    /\ all_reviews = <<>>
    /\ fetched = <<>>
    /\ sleeps = <<>>
    /\ lpc = "loop"

\* one iteration of the while loop of scrape_gsmarena_reviews
ScrapePage ==
    /\ lpc = "loop"
    /\ page_num <= MaxPageNum
    /\ \E page \in PageOutcomes :
        LET r == scrape_single_page(page_num, page)
            reviews == r[1]
            has_content == r[2]
            empties == IF reviews # <<>> THEN 0 ELSE consecutive_empty + 1
            stop_empty == /\ reviews = <<>>
                          /\ (~has_content \/ empties >= max_consecutive_empty)
            stop_limit == limit_reached(page_num, start_page, max_pages)
        IN  /\ fetched' = Append(fetched, [page_num |-> page_num,
                                           url |-> current_url(page_num),
                                           page |-> page])
            /\ all_reviews' = all_reviews \o reviews
            /\ consecutive_empty' = empties
            /\ IF stop_empty \/ stop_limit
               THEN /\ lpc' = "done"
                    /\ UNCHANGED page_num
               ELSE /\ lpc' = "loop"
                    /\ page_num' = page_num + 1
            /\ sleeps' = sleep_unless_stopping(sleeps, delay, stop_empty \/ stop_limit)
    /\ UNCHANGED <<start_page, max_pages, delay>>
    /\ UNCHANGED <<textVars, discoveryVars, fetcherVars, extractorVars,
                   saveVars, scanVars>>

\* the return of scrape_gsmarena_reviews
ListerReturn ==
    /\ lpc = "done"
    /\ lpc' = "returned"
    /\ UNCHANGED <<start_page, max_pages, delay, page_num, consecutive_empty,
                   all_reviews, fetched, sleeps>>
    /\ UNCHANGED <<textVars, discoveryVars, fetcherVars, extractorVars,
                   saveVars, scanVars>>

ListerInit ==
    /\ ListerStart /\ TextIdle /\ DiscoveryIdle /\ FetcherIdle /\ ExtractorIdle
    /\ SaveIdle /\ ScanIdle
ListerNext == ScrapePage \/ ListerReturn
SpecLister == ListerInit /\ [][ListerNext]_vars

\* --- properties of the lister ---
LastFetched == fetched[Len(fetched)]
LimitReached == max_pages # 0 /\ Len(fetched) >= max_pages

\* C1: when fetching or parsing a page raises an exception, the page only
\* adds one to the consecutive-empty streak and the lister goes on to the
\* next page number: a failing page (streak below three, max_pages not
\* reached) never ends the run.
C1_FailingPageContinues ==
    ( /\ fetched # <<>>
      /\ LastFetched.page.status # "ok"
      /\ consecutive_empty < max_consecutive_empty
      /\ ~LimitReached )
    => /\ lpc = "loop"
       /\ page_num = LastFetched.page_num + 1

ZeroRecords(i) == fetched[i].page.status # "ok" \/ fetched[i].page.nrecs = 0
ShortBody(i) == fetched[i].page.body_len <= ContentThreshold
ThirdEmpty(i) == i >= 3 /\ \A k \in (i - 2)..i : ZeroRecords(k)
StopPage(i) == ZeroRecords(i) /\ (ShortBody(i) \/ ThirdEmpty(i))

RECURSIVE RecordsOf(_)
RecordsOf(h) ==
    IF h = <<>> THEN <<>>
    ELSE RecordsOf(SubSeq(h, 1, Len(h) - 1))
         \o (IF h[Len(h)].page.status = "ok"
             THEN PageRecords(h[Len(h)].page_num, h[Len(h)].page) ELSE <<>>)

\* C2: with no max_pages limit the run stops exactly at the first fetched
\* page that yields zero records and either has a trivially short body or is
\* the third consecutive zero-record page, and the result is the records of
\* the pages before it, in page order.
C2_StopsAtFirstStopPage ==
    max_pages = 0 =>
        /\ \A i \in DOMAIN fetched :
              (lpc # "loop" /\ i = Len(fetched)) <=> StopPage(i)
        /\ all_reviews = RecordsOf(fetched)

\* ------------------------------------------------------------------------
\* Image discovery (phone_image_scraper.py, scrape_images_from_pictures_page)
\* ------------------------------------------------------------------------
MaxNodes == 3      \* elements of a pictures page
MaxImages == 2     \* the largest max_images tried

\* A reference (an href or a src) is its text; EmptyRef is the src of an
\* <img> that has none (img.get('src') is None, img.get('src', '') is '').
EmptyRef == <<>>

\* --- urllib.parse ---
\* _WHATWG_C0_CONTROL_OR_SPACE: U+0001..U+0020 (U+0000 is left out of the
\* alphabet of the model)
C0ControlOrSpace == {"", "", "", "", "", "", "", "", "", "", "", "", "", "", "", "", "", "", "", "", "", "", "", "", "", "", "",
                     "\t", "\n", "\r", "\f", " "}
\* _UNSAFE_URL_BYTES_TO_REMOVE
UnsafeUrlChars == {"\t", "\r", "\n"}
\* scheme_chars
SchemeChars == Range(LowerLetters) \cup Range(UpperLetters) \cup Digits
               \cup {"+", "-", "."}
UsesRelative == { <<>>, <<"f","t","p">>, <<"h","t","t","p">>,
                  <<"g","o","p","h","e","r">>, <<"n","n","t","p">>,
                  <<"i","m","a","p">>, <<"w","a","i","s">>,
                  <<"f","i","l","e">>, <<"h","t","t","p","s">>,
                  <<"s","h","t","t","p">>, <<"m","m","s">>,
                  <<"p","r","o","s","p","e","r","o">>, <<"r","t","s","p">>,
                  <<"r","t","s","p","s">>, <<"r","t","s","p","u">>,
                  <<"s","f","t","p">>, <<"s","v","n">>,
                  <<"s","v","n","+","s","s","h">>, <<"w","s">>,
                  <<"w","s","s">> }
UsesNetloc == { <<>>, <<"f","t","p">>, <<"h","t","t","p">>,
                <<"g","o","p","h","e","r">>, <<"n","n","t","p">>,
                <<"t","e","l","n","e","t">>, <<"i","m","a","p">>,
                <<"w","a","i","s">>, <<"f","i","l","e">>, <<"m","m","s">>,
                <<"h","t","t","p","s">>, <<"s","h","t","t","p">>,
                <<"s","n","e","w","s">>, <<"p","r","o","s","p","e","r","o">>,
                <<"r","t","s","p">>, <<"r","t","s","p","s">>,
                <<"r","t","s","p","u">>, <<"r","s","y","n","c">>,
                <<"s","v","n">>, <<"s","v","n","+","s","s","h">>,
                <<"s","f","t","p">>, <<"n","f","s">>, <<"g","i","t">>,
                <<"g","i","t","+","s","s","h">>, <<"w","s">>,
                <<"w","s","s">> }
UsesParams == { <<>>, <<"f","t","p">>, <<"h","d","l">>,
                <<"p","r","o","s","p","e","r","o">>, <<"h","t","t","p">>,
                <<"i","m","a","p">>, <<"h","t","t","p","s">>,
                <<"s","h","t","t","p">>, <<"r","t","s","p">>,
                <<"r","t","s","p","s">>, <<"r","t","s","p","u">>,
                <<"s","i","p">>, <<"s","i","p","s">>, <<"m","m","s">>,
                <<"s","f","t","p">>, <<"t","e","l">> }

\* s.lstrip(cs)
LStrip(s, cs) == From(s, FirstOf({k \in 1..Len(s) : s[k] \notin cs}, Len(s) + 1))

\* s.find(c) as a 1-based index, or 0
Find(s, c) == FirstOf({k \in 1..Len(s) : s[k] = c}, 0)

\* --- urlsplit(url, scheme), in the order of its steps ---
\* the index of the colon that ends the scheme of u, 0 when u has no scheme
SchemeEnd(u) ==
    LET i == Find(u, ":") IN
    IF /\ i > 1
       /\ u[1] \in Range(LowerLetters) \cup Range(UpperLetters)
       /\ \A k \in 1..(i - 1) : u[k] \in SchemeChars
    THEN i ELSE 0

\* _splitnetloc(u, 2): the index where the netloc of u ends, 0 when u does
\* not start with '//'
NetlocEnd(u) ==
    IF Len(u) >= 2 /\ u[1] = "/" /\ u[2] = "/"
    THEN FirstOf({k \in 3..Len(u) : u[k] \in {"/", "?", "#"}}, Len(u) + 1)
    ELSE 0

\* the query is split off at the first '?'
SplitQuery(scheme, netloc, u, fragment) ==
    LET m == Find(u, "?") IN
    [scheme |-> scheme, netloc |-> netloc,
     path |-> IF m = 0 THEN u ELSE Take(u, m - 1),
     query |-> IF m = 0 THEN <<>> ELSE From(u, m + 1),
     fragment |-> fragment]

\* the fragment is split off at the first '#'
SplitFragment(scheme, netloc, u) ==
    LET h == Find(u, "#") IN
    SplitQuery(scheme, netloc,
               IF h = 0 THEN u ELSE Take(u, h - 1),
               IF h = 0 THEN <<>> ELSE From(u, h + 1))

\* the netloc is what follows a leading '//'
SplitNetloc(scheme, u) ==
    LET d == NetlocEnd(u) IN
    SplitFragment(scheme,
                  IF d = 0 THEN <<>> ELSE SubSeq(u, 3, d - 1),
                  IF d = 0 THEN u ELSE From(u, d))

\* the scheme is lower-cased; without one the default is taken
SplitScheme(u, scheme) ==
    LET i == SchemeEnd(u) IN
    SplitNetloc(IF i = 0 THEN scheme ELSE Lower(Take(u, i - 1)),
                IF i = 0 THEN u ELSE From(u, i + 1))

\* urlsplit(url, scheme): scheme, netloc, path, query and fragment of url
\* (an IPv6 netloc, with '[' or ']', is not among the references of the model)
urlsplit(url, scheme) ==
    SplitScheme(SelectSeq(LStrip(url, C0ControlOrSpace),
                          LAMBDA c : c \notin UnsafeUrlChars),
                scheme)

\* _splitparams(path): the index of the ';' that starts the parameters of
\* the last segment, or 0
ParamsStart(path) ==
    LET slash == LastOf({k \in 1..Len(path) : path[k] = "/"}, 0) IN
    FirstOf({k \in (IF slash = 0 THEN 1 ELSE slash)..Len(path) : path[k] = ";"}, 0)

SplitParams(s) ==
    LET semi == IF s.scheme \in UsesParams THEN ParamsStart(s.path) ELSE 0 IN
    [scheme |-> s.scheme, netloc |-> s.netloc,
     path |-> IF semi = 0 THEN s.path ELSE Take(s.path, semi - 1),
     params |-> IF semi = 0 THEN <<>> ELSE From(s.path, semi + 1),
     query |-> s.query, fragment |-> s.fragment]

\* urlparse(url, scheme): urlsplit, and the parameters taken off the path
urlparse(url, scheme) == SplitParams(urlsplit(url, scheme))

\* urlunsplit((scheme, netloc, url, query, fragment))
WithNetloc(scheme, netloc, url) ==
    IF \/ netloc # <<>>
       \/ (scheme # <<>> /\ scheme \in UsesNetloc /\ Take(url, 2) # <<"/", "/">>)
    THEN <<"/", "/">> \o netloc
             \o (IF url # <<>> /\ url[1] # "/" THEN <<"/">> \o url ELSE url)
    ELSE url
WithScheme(scheme, url) ==
    IF scheme # <<>> THEN scheme \o <<":">> \o url ELSE url
WithPart(url, mark, part) ==
    IF part # <<>> THEN url \o <<mark>> \o part ELSE url
urlunsplit(scheme, netloc, url, query, fragment) ==
    WithPart(WithPart(WithScheme(scheme, WithNetloc(scheme, netloc, url)),
                      "?", query),
             "#", fragment)

\* urlunparse((scheme, netloc, path, params, query, fragment))
urlunparse(scheme, netloc, path, params, query, fragment) ==
    urlunsplit(scheme, netloc, WithPart(path, ";", params), query, fragment)

\* s.split('/') and '/'.join(segs)
RECURSIVE SplitSlash(_)
SplitSlash(s) ==
    LET j == Find(s, "/") IN
    IF j = 0 THEN <<s>> ELSE <<Take(s, j - 1)>> \o SplitSlash(From(s, j + 1))
RECURSIVE JoinSlash(_)
JoinSlash(segs) ==
    IF segs = <<>> THEN <<>>
    ELSE IF Len(segs) = 1 THEN segs[1]
    ELSE segs[1] \o <<"/">> \o JoinSlash(Tail(segs))

\* segments[1:-1] = filter(None, segments[1:-1])
RECURSIVE FilterInner(_, _)
FilterInner(segs, k) ==
    IF k > Len(segs) THEN <<>>
    ELSE IF k = 1 \/ k = Len(segs) \/ segs[k] # <<>>
         THEN <<segs[k]>> \o FilterInner(segs, k + 1)
    ELSE FilterInner(segs, k + 1)

\* base_parts: the segments of the base path but for its file name
BaseParts(bsplit) ==
    IF bsplit[Len(bsplit)] # <<>> THEN Take(bsplit, Len(bsplit) - 1) ELSE bsplit

\* the segments of the joined path
Segments(bpath, path) ==
    IF Take(path, 1) = <<"/">> THEN SplitSlash(path)
    ELSE FilterInner(BaseParts(SplitSlash(bpath)) \o SplitSlash(path), 1)

\* the loop of urljoin over the segments: '..' takes the last resolved
\* segment away, '.' is dropped
RECURSIVE ResolveDots(_, _)
ResolveDots(resolved, segs) ==
    IF segs = <<>> THEN resolved
    ELSE IF segs[1] = <<".", ".">>
         THEN ResolveDots(Take(resolved, Len(resolved) - 1), Tail(segs))
    ELSE IF segs[1] = <<".">> THEN ResolveDots(resolved, Tail(segs))
    ELSE ResolveDots(Append(resolved, segs[1]), Tail(segs))

\* '/'.join(resolved_path) or '/', a last segment '.' or '..' leaving a
\* trailing '/'
ResolvedPath(segs) ==
    LET path == JoinSlash(IF segs[Len(segs)] \in {<<".">>, <<".", ".">>}
                          THEN Append(ResolveDots(<<>>, segs), <<>>)
                          ELSE ResolveDots(<<>>, segs))
    IN  IF path = <<>> THEN <<"/">> ELSE path

\* urljoin with the base parsed as b and the url parsed as r
JoinParsed(b, r, url) ==
    IF r.scheme # b.scheme \/ r.scheme \notin UsesRelative THEN url
    ELSE IF r.scheme \in UsesNetloc /\ r.netloc # <<>>
    THEN urlunparse(r.scheme, r.netloc, r.path, r.params, r.query, r.fragment)
    ELSE IF r.path = <<>> /\ r.params = <<>>
    THEN urlunparse(r.scheme, b.netloc, b.path, b.params,
                    IF r.query = <<>> THEN b.query ELSE r.query, r.fragment)
    ELSE urlunparse(r.scheme, b.netloc, ResolvedPath(Segments(b.path, r.path)),
                    r.params, r.query, r.fragment)

JoinBase(b, url) == JoinParsed(b, urlparse(url, b.scheme), url)

\* the base of every urljoin call, parsed
ParsedSiteRoot == urlparse(SiteRoot, <<>>)

\* urljoin('https://www.gsmarena.com/', ref)
urljoin(ref) ==
    IF ref = <<>> THEN SiteRoot ELSE JoinBase(ParsedSiteRoot, ref)

\* s.replace(w, r): every occurrence of w, from the left, none overlapping
RECURSIVE ReplaceAll(_, _, _)
ReplaceAll(s, w, r) ==
    LET j == FirstOf({k \in 1..Len(s) : MatchesAt(s, k, w)}, 0) IN
    IF j = 0 THEN s
    ELSE Take(s, j - 1) \o r \o ReplaceAll(From(s, j + Len(w)), w, r)

BigpicDir == <<"/","v","v","/","b","i","g","p","i","c","/">>
VvPicsDir == <<"/","v","v","/","p","i","c","s","/">>
ThumbWord == <<"t","h","u","m","b">>
PicsWord == <<"p","i","c","s">>

\* the thumbnail rule of lines 157-162 and 212-217: in a URL without
\* '/vv/bigpic/' and '/vv/pics/' whose lower-cased text contains 'thumb',
\* url.replace('thumb', 'pics')
full_size(url) ==
    IF Contains(url, BigpicDir) \/ Contains(url, VvPicsDir) THEN url
    ELSE IF Contains(Lower(url), ThumbWord) THEN ReplaceAll(url, ThumbWord, PicsWord)
    ELSE url

JpgExt == <<".","j","p","g">>
JpegExt == <<".","j","p","e","g">>
PngExt == <<".","p","n","g">>
WebpExt == <<".","w","e","b","p">>

\* '.jpg' in ref or '.png' in ref or '.webp' in ref
HasImageExt(ref) ==
    Contains(ref, JpgExt) \/ Contains(ref, PngExt) \/ Contains(ref, WebpExt)

SkipMarkers == { <<"i","c","o","n">>, <<"l","o","g","o">>,
                 <<"s","p","r","i","t","e">>, <<"b","u","t","t","o","n">>,
                 <<"b","l","a","n","k">> }

\* any(skip in src.lower() for skip in ['icon','logo','sprite','button','blank'])
HasSkipMarker(ref) == \E skip \in SkipMarkers : Contains(Lower(ref), skip)

MainSrcs == { <<"v","v","/","b","i","g","p","i","c","/","p","1",".","j","p","g">>,
              <<"p","i","c","s","/","t","h","u","m","b","_","p","2",".","j","p","g">>,
              EmptyRef }
LinkHrefs == { SiteRoot \o <<"v","v","/","b","i","g","p","i","c","/","p","1",".","j","p","g">>,
               <<"p","i","c","s","/","p","2",".","j","p","g">>,
               <<"p","i","c","s","/","p","3",".","g","i","f">>,
               <<"/","p","i","c","s","/","p","3",".","j","p","g",".","g","i","f">> }
ImgSrcs == { <<"t","h","u","m","b","/","p","2",".","j","p","g">>,
             SiteRoot \o <<"v","v","/","b","i","g","p","i","c","/","p","1",".","j","p","g">>,
             <<"T","h","u","m","b","s","/","p","5",".","w","e","b","p">>,
             <<"p","i","c","s","/","L","o","g","o",".","p","n","g">> }

\* The elements of a page.  "main_img": an <img> of the specs-photo-main
\* div; "list_link": an <a href> of the pictures-list div; "list_img": an
\* <img> of the pictures-list div; "page_img": an <img> elsewhere.
NodeChoices(with_list) ==
    [kind : {"main_img"}, ref : MainSrcs]
    \cup (IF with_list
          THEN [kind : {"list_link"}, ref : LinkHrefs]
               \cup [kind : {"list_img"}, ref : ImgSrcs]
          ELSE [kind : {"page_img"}, ref : ImgSrcs])

RefsOfKind(doc, kinds) ==
    LET sel == SelectSeq(doc, LAMBDA n : n.kind \in kinds)
    IN  [i \in DOMAIN sel |-> sel[i].ref]

\* a faulty append that does not look for the URL in the list
append_always(urls, url) == Append(urls, url)

\* if url not in image_urls: image_urls.append(url)   (urls is image_urls)
append_new(urls, url) ==
    IF url \in Range(urls) THEN urls ELSE Append(urls, url)

\* lines 148-166: the main image
main_step(doc) ==
    LET imgs == RefsOfKind(doc, {"main_img"}) IN
    IF imgs # <<>> /\ imgs[1] # EmptyRef
    THEN append_new(<<>>, full_size(urljoin(imgs[1])))
    ELSE <<>>

\* lines 175-187: the links of pictures-list, from the i-th on
RECURSIVE link_loop(_, _, _, _)
link_loop(urls, links, i, max) ==
    IF i > Len(links) THEN urls
    ELSE IF HasImageExt(links[i])
         THEN LET grown == append_new(urls, urljoin(links[i])) IN
              \* the length is looked at only after an append
              IF grown # urls /\ Len(grown) >= max THEN grown
              ELSE link_loop(grown, links, i + 1, max)
         ELSE link_loop(urls, links, i + 1, max)

\* lines 199-223: the <img> elements, from the i-th on
RECURSIVE img_loop(_, _, _, _)
img_loop(urls, imgs, i, max) ==
    IF i > Len(imgs) THEN urls
    ELSE IF /\ ~HasSkipMarker(imgs[i])
            /\ imgs[i] # EmptyRef
            /\ HasImageExt(imgs[i])
         THEN LET grown == append_new(urls, full_size(urljoin(imgs[i]))) IN
              IF grown # urls /\ Len(grown) >= max THEN grown
              ELSE img_loop(grown, imgs, i + 1, max)
         ELSE img_loop(urls, imgs, i + 1, max)

\* scrape_images_from_pictures_page(pictures_url, headers, max_images)
scrape_images_from_pictures_page(ok, doc, with_list, max) ==
    IF ~ok THEN <<>>
    ELSE
    LET a == main_step(doc)
        b == IF with_list
             THEN link_loop(a, RefsOfKind(doc, {"list_link"}), 1, max)
             ELSE a
        c == IF Len(b) <= 1
             THEN img_loop(b,
                           IF with_list THEN RefsOfKind(doc, {"list_img"})
                           ELSE RefsOfKind(doc, {"main_img", "page_img"}),
                           1, max)
             ELSE b
    IN  Take(c, max)

DiscoveryStart ==
    /\ nodes = <<>>
    /\ has_list \in BOOLEAN
    /\ max_images \in 0..MaxImages
    /\ fetch_ok = TRUE
    /\ found = None
    /\ dpc = "build"

\* the page gets one more element
AddNode ==
    /\ dpc = "build"
    /\ Len(nodes) < MaxNodes
    /\ \E n \in NodeChoices(has_list) : nodes' = Append(nodes, n)
    /\ UNCHANGED <<has_list, max_images, fetch_ok, found, dpc>>
    /\ UNCHANGED <<textVars, listerVars, fetcherVars, extractorVars,
                   saveVars, scanVars>>

\* the call; the request or the parse may fail
ScrapeImages ==
    /\ dpc = "build"
    /\ \E ok \in BOOLEAN :
        /\ fetch_ok' = ok
        /\ found' = scrape_images_from_pictures_page(ok, nodes, has_list, max_images)
    /\ dpc' = "called"
    /\ UNCHANGED <<nodes, has_list, max_images>>
    /\ UNCHANGED <<textVars, listerVars, fetcherVars, extractorVars,
                   saveVars, scanVars>>

DiscoveryInit ==
    /\ DiscoveryStart /\ TextIdle /\ ListerIdle /\ FetcherIdle /\ ExtractorIdle
    /\ SaveIdle /\ ScanIdle
DiscoveryNext == AddNode \/ ScrapeImages
SpecDiscovery == DiscoveryInit /\ [][DiscoveryNext]_vars

\* --- properties of the discovery ---
NoDuplicates(s) == \A i, j \in DOMAIN s : i # j => s[i] # s[j]

\* is s a subsequence of t (the entries of s, in order, among those of t)
RECURSIVE IsSubseq(_, _)
IsSubseq(s, t) ==
    IF s = <<>> THEN TRUE
    ELSE IF t = <<>> THEN FALSE
    ELSE IF s[1] = t[1] THEN IsSubseq(Tail(s), Tail(t))
    ELSE IsSubseq(s, Tail(t))

MainPresent == \E i \in DOMAIN nodes :
                  /\ nodes[i].kind = "main_img"
                  /\ nodes[i].ref # EmptyRef
                  /\ \A j \in 1..(i - 1) : nodes[j].kind # "main_img"
MainUrl == LET i == CHOOSE k \in DOMAIN nodes :
                        /\ nodes[k].kind = "main_img"
                        /\ \A j \in 1..(k - 1) : nodes[j].kind # "main_img"
           IN  full_size(urljoin(nodes[i].ref))
LinkTargets == LET l == RefsOfKind(nodes, {"list_link"})
               IN  [i \in DOMAIN l |-> urljoin(l[i])]
ScanSources == LET g == IF has_list THEN RefsOfKind(nodes, {"list_img"})
                        ELSE RefsOfKind(nodes, {"main_img", "page_img"})
               IN  [i \in DOMAIN g |-> full_size(urljoin(g[i]))]

\* C5: the list returned by scrape_images_from_pictures_page has at most
\* max_images entries, holds no URL twice, and is ordered: the main-photo
\* image first (when present), then pictures-list link targets in document
\* order, then broadened-scan <img> sources in document order; a fetch or
\* parse failure returns the empty list.
C5_DiscoveryBoundedDistinctOrdered ==
    dpc = "called" =>
        /\ Len(found) <= max_images
        /\ NoDuplicates(found)
        /\ (MainPresent /\ found # <<>>) => found[1] = MainUrl
        /\ IsSubseq(found, (IF MainPresent THEN <<MainUrl>> ELSE <<>>)
                           \o LinkTargets \o ScanSources)
        /\ ~fetch_ok => found = <<>>

\* C5 witness: a page whose main image is also the target of a link of the
\* list, and the truncation to max_images cut the list found
C5_Witness ==
    /\ dpc = "called"
    /\ fetch_ok
    /\ MainPresent
    /\ \E i \in DOMAIN LinkTargets : LinkTargets[i] = MainUrl
    /\ Len(found) = max_images
    /\ Len(found) = 2
    /\ found[1] = MainUrl

\* ------------------------------------------------------------------------
\* Image Fetcher (phone_image_scraper.py, process_phones_from_csv)
\* ------------------------------------------------------------------------
MaxPhones == 2     \* rows of the input CSV

PhoneNames == { <<"Z">>, <<"Z", " ", "R", "e", "v", "i", "e", "w">> }
SpecUrls == { SiteRoot \o <<"z", "-", "7">> \o PhpExt,
              SiteRoot \o <<"z">> \o PhpExt }
PhoneRows == [phone_name : PhoneNames, spec_url : SpecUrls]

\* the pictures pages the site may answer with
PageNone == [has_list |-> FALSE, doc |-> <<>>]
PageMain == [has_list |-> FALSE,
             doc |-> << [kind |-> "main_img", ref |-> <<"v","v","/","b","i","g","p",
                                       "i","c","/","p","1",".","g",
                                       "i","f">>] >>]
PageList == [has_list |-> TRUE,
             doc |-> << [kind |-> "main_img", ref |-> <<"v","v","/","b","i","g","p","i","c","/",
                              "p","1",".","j","p","g">>],
                        [kind |-> "list_link", ref |-> SiteRoot \o <<"v","v","/","p","i","c","s","/","p","4",
                              ".","p","n","g">>],
                        [kind |-> "list_link", ref |-> <<"p","i","c","s","/","p","2",".","w","e",
                              "b","p","?","v","=","2">>] >>]
PicturePages == {PageNone, PageMain, PageList}

MaxImagesChoices == {1, 2}
PhoneDelays == {3}
ImagePause == 5     \* time.sleep(0.5), in tenths of a second

\* What happens to one download_image call.  "exception": requests.get,
\* os.makedirs or open raises, the file is not touched.  "zero_length": the
\* body is empty.  "broken_empty", "broken_partial": iter_content or f.write
\* raises after the file was opened, before the first byte was written or
\* after some were.
DownloadOutcomes == {"ok", "http_error", "exception", "zero_length",
                     "broken_empty", "broken_partial"}

\* a faulty download_image that does not look at the size of the saved file
download_image_unverified(outcome) == outcome \in {"ok", "zero_length"}

\* download_image(image_url, save_path, headers): its return value, given
\* what happens to the request and to the file
download_image(outcome) == outcome = "ok"

\* what the with-block of lines 91-93 leaves in the file it opened ('wb'
\* truncates a file that was there), "nothing" when it is not reached
written_by(outcome) ==
    CASE outcome = "ok" -> "full"
      [] outcome \in {"zero_length", "broken_empty"} -> "empty"
      [] outcome = "broken_partial" -> "partial"
      [] OTHER -> "nothing"

\* what download_image leaves at save_path
files_after(fs, path, outcome) ==
    IF written_by(outcome) = "nothing" THEN fs
    ELSE [q \in DOMAIN fs \cup {path} |->
             IF q = path THEN written_by(outcome) ELSE fs[q]]

\* os.path.splitext(path)[1]: from the last dot of the last segment on, when
\* a character other than a dot stands before it in that segment
splitext(path) ==
    LET slash == LastOf({k \in 1..Len(path) : path[k] = "/"}, 0)
        dot == LastOf({k \in 1..Len(path) : path[k] = "."}, 0)
    IN  IF dot > slash /\ \E k \in (slash + 1)..(dot - 1) : path[k] # "."
        THEN From(path, dot) ELSE <<>>

\* lines 276-281: the extension of the file name
file_ext(url) ==
    LET ext == splitext(urlparse(url, <<>>).path) IN
    IF ext = <<>> \/ ext \notin {JpgExt, JpegExt, PngExt, WebpExt}
    THEN JpgExt ELSE ext

MainWord == <<"m","a","i","n">>
AngleWord == <<"a","n","g","l","e","_">>

\* str(n) of a natural number
RECURSIVE str(_)
str(n) == IF n < 10 THEN <<(<<"0","1","2","3","4","5","6","7","8","9">>)[n + 1]>>
          ELSE str(n \div 10) \o str(n % 10)

\* a faulty naming that gives every image one and the same name
file_name_flat(n, url) == MainWord \o JpgExt

\* lines 284-287: the file name of the image at position n of image_urls
file_name(n, url) ==
    IF n = 1 THEN MainWord \o file_ext(url)
    ELSE AngleWord \o str(n) \o file_ext(url)

\* os.path.join(os.path.join(images_dir, safe_name), filename)
save_path(safe_name, filename) == [dir |-> safe_name, file |-> filename]

\* a faulty item assignment that keeps the entry a key already has
dict_setdefault(d, key, value) ==
    [k \in DOMAIN d \cup {key} |-> IF k \in DOMAIN d THEN d[k] ELSE value]

\* results[phone_name] = entry
dict_set(d, key, value) ==
    [k \in DOMAIN d \cup {key} |-> IF k = key THEN value ELSE d[k]]

\* a faulty delay that is also taken after the last phone
sleep_after_every_phone(slept, i, n, seconds) ==
    Append(slept, [after |-> "phone", phone |-> i, tenths |-> 10 * seconds])

\* lines 398-400: the time.sleep(delay) after phone i of n
sleep_before_next(slept, i, n, seconds) ==
    IF i < n
    THEN Append(slept, [after |-> "phone", phone |-> i, tenths |-> 10 * seconds])
    ELSE slept

FetcherStart ==
    /\ phones \in UNION { [1..n -> PhoneRows] : n \in 0..MaxPhones }
    /\ max_images_per_phone \in MaxImagesChoices
    /\ phone_delay \in PhoneDelays
    /\ idx = 1
    /\ results = EmptyDict
    /\ successful = 0
    /\ failed = 0
    /\ clean_info = None
    /\ image_urls = <<>>
    /\ img_idx = 1
    /\ downloaded_paths = <<>>
    /\ files = EmptyDict
    /\ attempts = <<>>
    /\ calls = <<>>
    /\ pauses = <<>>
    /\ bpc = "start"

\* lines 320-354: the CSV file is read (phones holds its rows after the
\* start_from and max_phones filters) and the images directory is made.  A
\* failure of the read returns {}; os.makedirs(images_dir) is in no try, its
\* failure leaves process_phones_from_csv before the first phone.
StartBatch ==
    /\ bpc = "start"
    /\ \E csv \in {"ok", "error"}, mkdir \in {"ok", "OSError"} :
          bpc' = IF csv = "error" THEN "read_failed"
                 ELSE IF mkdir = "OSError" THEN "raised_before_loop"
                 ELSE "phone"
    /\ UNCHANGED <<phones, max_images_per_phone, phone_delay, idx, results, successful,
                   failed, clean_info, image_urls, img_idx, downloaded_paths, files,
                   attempts, calls, pauses>>
    /\ UNCHANGED <<textVars, listerVars, discoveryVars, extractorVars,
                   saveVars, scanVars>>

\* lines 383-400: what process_phones_from_csv does with the image_paths and
\* clean_info that download_phone_images returned for phones[idx]
EndOfPhone(urls, image_paths, info) ==
    /\ IF image_paths # <<>>
       THEN /\ results' = dict_set(results, phones[idx].phone_name,
                                   [spec_url |-> phones[idx].spec_url,
                                    image_count |-> Len(image_paths),
                                    image_paths |-> image_paths,
                                    clean_info |-> info])
            /\ successful' = successful + 1
            /\ UNCHANGED failed
       ELSE /\ failed' = failed + 1
            /\ UNCHANGED <<results, successful>>
    /\ calls' = Append(calls, [phone |-> idx, urls |-> urls, paths |-> image_paths])
    /\ idx' = idx + 1

\* lines 268-272 and 383-400: download_phone_images has the clean_info and the
\* image URLs of phones[idx]; it returns at once without URLs, and makes the
\* directory of the phone otherwise
StartDownloads(info, urls, mkdir) ==
    /\ clean_info' = info
    /\ image_urls' = urls
    /\ img_idx' = 1
    /\ downloaded_paths' = <<>>
    /\ IF urls = <<>>
       THEN \* return [], clean_info
            /\ EndOfPhone(urls, <<>>, info)
            /\ pauses' = sleep_before_next(pauses, idx, Len(phones), phone_delay)
            /\ bpc' = "phone"
       ELSE IF mkdir = "OSError"
       THEN \* os.makedirs(phone_dir) raises; nothing catches it
            /\ bpc' = "raised"
            /\ UNCHANGED <<idx, results, successful, failed, calls, pauses>>
       ELSE /\ bpc' = "images"
            /\ UNCHANGED <<idx, results, successful, failed, calls, pauses>>

\* lines 251-263: the image URLs of the pictures page of a specification URL
urls_of(spec_url, ok, page, limit) ==
    IF construct_pictures_url(spec_url) = NoneUrl THEN <<>>
    ELSE scrape_images_from_pictures_page(ok, page.doc, page.has_list, limit)

\* lines 361-381 and 236-272: the loop of process_phones_from_csv takes the
\* next phone and download_phone_images runs up to its download loop
ProcessPhone ==
    /\ bpc = "phone"
    /\ idx <= Len(phones)
    /\ \E page \in PicturePages, ok \in BOOLEAN, mkdir \in {"ok", "OSError"} :
          StartDownloads(clean_phone_name(phones[idx].phone_name),
                         urls_of(phones[idx].spec_url, ok, page, max_images_per_phone),
                         mkdir)
    /\ UNCHANGED <<phones, max_images_per_phone, phone_delay, files, attempts>>
    /\ UNCHANGED <<textVars, listerVars, discoveryVars, extractorVars,
                   saveVars, scanVars>>

\* lines 274-301: one iteration of the download loop
DownloadNext ==
    /\ bpc = "images"
    /\ img_idx <= Len(image_urls)
    /\ \E outcome \in DownloadOutcomes :
        LET url == image_urls[img_idx]
            path == save_path(clean_info.safe_name, file_name(img_idx, url))
            done == download_image(outcome)
        IN  /\ attempts' = Append(attempts, [phone |-> idx, pos |-> img_idx, url |-> url,
                                             path |-> path, wrote |-> written_by(outcome),
                                             returned |-> done])
            /\ files' = files_after(files, path, outcome)
            /\ downloaded_paths' = IF done THEN Append(downloaded_paths, path)
                                   ELSE downloaded_paths
            /\ pauses' = Append(pauses, [after |-> "image", phone |-> idx,
                                         tenths |-> ImagePause])
    /\ img_idx' = img_idx + 1
    /\ UNCHANGED <<phones, max_images_per_phone, phone_delay, idx, results, successful,
                   failed, clean_info, image_urls, calls, bpc>>
    /\ UNCHANGED <<textVars, listerVars, discoveryVars, extractorVars,
                   saveVars, scanVars>>

\* line 303 and lines 383-400: download_phone_images returns, the manifest
\* is updated and the loop moves to the next phone
FinishPhone ==
    /\ bpc = "images"
    /\ img_idx > Len(image_urls)
    /\ EndOfPhone(image_urls, downloaded_paths, clean_info)
    /\ pauses' = sleep_before_next(pauses, idx, Len(phones), phone_delay)
    /\ bpc' = "phone"
    /\ UNCHANGED <<phones, max_images_per_phone, phone_delay, clean_info, image_urls,
                   img_idx, downloaded_paths, files, attempts>>
    /\ UNCHANGED <<textVars, listerVars, discoveryVars, extractorVars,
                   saveVars, scanVars>>

\* lines 402-411: the loop is over, the manifest is returned
BatchReturn ==
    /\ bpc = "phone"
    /\ idx > Len(phones)
    /\ bpc' = "returned"
    /\ UNCHANGED <<phones, max_images_per_phone, phone_delay, idx, results, successful,
                   failed, clean_info, image_urls, img_idx, downloaded_paths, files,
                   attempts, calls, pauses>>
    /\ UNCHANGED <<textVars, listerVars, discoveryVars, extractorVars,
                   saveVars, scanVars>>

FetcherInit ==
    /\ FetcherStart /\ TextIdle /\ ListerIdle /\ DiscoveryIdle /\ ExtractorIdle
    /\ SaveIdle /\ ScanIdle
FetcherNext == StartBatch \/ ProcessPhone \/ DownloadNext \/ FinishPhone \/ BatchReturn
SpecFetcher == FetcherInit /\ [][FetcherNext]_vars

\* --- properties of the fetcher ---
AttemptsOf(p) == SelectSeq(attempts, LAMBDA a : a.phone = p)

\* C6: in download_phone_images an image whose download gets a non-2xx HTTP
\* status, raises any exception, or leaves a zero-length file is reported as
\* failed by download_image and its path is not added to the returned path
\* list; every remaining discovered URL of that phone is still attempted,
\* and the following phones are still processed.
C6_FailedDownloadSkipped ==
    /\ \A i \in DOMAIN attempts :
          attempts[i].wrote # "full" =>
              /\ ~attempts[i].returned
              /\ (bpc = "images" /\ attempts[i].phone = idx)
                     => attempts[i].path \notin Range(downloaded_paths)
              /\ \A c \in Range(calls) :
                     c.phone = attempts[i].phone => attempts[i].path \notin Range(c.paths)
    /\ \A c \in Range(calls) :
          /\ Len(AttemptsOf(c.phone)) = Len(c.urls)
          /\ \A k \in DOMAIN c.urls :
                /\ AttemptsOf(c.phone)[k].pos = k
                /\ AttemptsOf(c.phone)[k].url = c.urls[k]
    /\ bpc = "images" => Len(AttemptsOf(idx)) = img_idx - 1
    /\ bpc \in {"phone", "images", "returned"} =>
          /\ Len(calls) = idx - 1
          /\ \A k \in DOMAIN calls : calls[k].phone = k
    /\ bpc = "returned" => Len(calls) = Len(phones)

\* C6 witness: the batch ended; the first image of phone 1 was saved with
\* zero length, its second image was then downloaded, and phone 2 was
\* processed after it
C6_Witness ==
    /\ bpc = "returned"
    /\ Len(phones) = 2
    /\ \E i, j, k \in DOMAIN attempts :
          /\ attempts[i].phone = 1 /\ attempts[i].pos = 1
          /\ attempts[i].wrote = "empty"
          /\ attempts[j].phone = 1 /\ attempts[j].pos = 2
          /\ attempts[j].wrote = "full"
          /\ attempts[k].phone = 2 /\ attempts[k].wrote = "full"
    /\ calls[1].paths = <<attempts[2].path>>

\* the extension rule as the specification words it
ExtRule(url) ==
    LET ext == splitext(urlparse(url, <<>>).path) IN
    IF ext \in {JpgExt, JpegExt, PngExt, WebpExt} THEN ext ELSE JpgExt

\* C8: for every manifest entry image_paths has at most max_images_per_phone
\* entries, its first file is named main{ext}, and every later file is named
\* angle_{n}{ext} with n the 1-based position of its URL in the discovered
\* list; {ext} is the URL path's extension when it is one of
\* .jpg/.jpeg/.png/.webp and .jpg otherwise.
C8_ManifestFileNames ==
    \A name \in DOMAIN results :
        LET paths == results[name].image_paths IN
        /\ Len(paths) <= max_images_per_phone
        /\ \E i \in DOMAIN attempts :
              /\ attempts[i].path = paths[1]
              /\ attempts[i].returned
              /\ paths[1].file = MainWord \o ExtRule(attempts[i].url)
        /\ \A k \in 2..Len(paths) :
              \E i \in DOMAIN attempts :
                  /\ attempts[i].path = paths[k]
                  /\ attempts[i].returned
                  /\ paths[k].file = AngleWord \o str(attempts[i].pos) \o ExtRule(attempts[i].url)

\* C9: a failure of any kind while handling one phone (network, parse, or
\* file system, such as failing to create the phone's image directory) is
\* caught inside that phone's unit: it never propagates out of the batch
\* loop, and every later phone of the input list is still processed.
C9_FailureStaysInUnit ==
    /\ bpc # "raised"
    /\ bpc = "returned" => Len(calls) = Len(phones)

(***************************************************************************)
(* Spec Extractor: phone_specs_scraper.py                                  *)
(***************************************************************************)
\* the absent value of a text, of a link target and of a mapping
NoText == <<"None">>
NoLink == <<"None">>
NoneDict == [x \in {"None"} |-> "None"]

SpecificationWord == <<"s","p","e","c","i","f","i","c","a","t","i","o","n">>
SpecsWord == <<"s","p","e","c","s">>
FullPhoneWord == <<"f","u","l","l"," ","p","h","o","n","e">>

\* urljoin('https://www.gsmarena.com/', href) on the text of an href
urljoin_href(href) == urljoin(href)

\* re.search(r'-\d{4,5}\.php', href)
HasIdPage(href) ==
    \E i \in 1..Len(href) : \E n \in {4, 5} :
        /\ href[i] = "-"
        /\ i + n <= Len(href)
        /\ \A k \in 1..n : href[i + k] \in Digits
        /\ MatchesAt(href, i + n + 1, PhpExt)

\* link.get_text(strip=True).lower() holds one of the specification wordings
HasSpecWording(link) ==
    LET text == Lower(Strip(link.text, SpaceChars))
    IN  \/ Contains(text, SpecificationWord)
        \/ Contains(text, SpecsWord)
        \/ Contains(text, FullPhoneWord)

\* find_spec_url_from_review(review_url, headers) on the fetched review page
find_spec_url_from_review(page) ==
    IF page.status # "ok" THEN NoLink
    ELSE
        LET links == page.links
            worded == FirstOf({i \in DOMAIN links :
                                  HasSpecWording(links[i]) /\ Contains(links[i].href, PhpExt)}, 0)
            by_id == FirstOf({i \in DOMAIN links :
                                 HasIdPage(links[i].href) /\ ~Contains(links[i].href, ReviewWord)}, 0)
        IN  IF worded # 0 THEN urljoin_href(links[worded].href)
            ELSE IF by_id # 0 THEN urljoin_href(links[by_id].href)
            ELSE NoLink

\* the links a review page can hold
Link(text, href) == [text |-> text, href |-> href]
LinkSpecs == Link(<<" ","S","p","e","c","s">>, <<"z","-","1","2","3","4",".","p","h","p">>)
LinkPhone == Link(<<"Z">>, <<"/","z","-","1","2","3","4","5",".","p","h","p">>)
LinkReview == Link(<<"R","e","v","i","e","w">>, <<"z","-","r","e","v","i","e","w","-","1","2","3","4",".","p","h","p">>)
LinkAnchor == Link(<<"s","p","e","c","s">>, <<"#","t","o","p">>)
LinkShortId == Link(<<"Z">>, <<"z","-","1","2","3",".","p","h","p">>)
ReviewPage(status, links) == [status |-> status, links |-> links]
ReviewPages ==
    { ReviewPage("error", <<LinkSpecs>>),
      ReviewPage("ok", <<>>),
      ReviewPage("ok", <<LinkShortId, LinkReview>>),
      ReviewPage("ok", <<LinkReview, LinkSpecs>>),
      ReviewPage("ok", <<LinkAnchor, LinkPhone>>),
      ReviewPage("ok", <<LinkPhone, LinkSpecs>>) }

PhoneNameKey == <<"p","h","o","n","e","_","n","a","m","e">>
MetadataKey == <<"_","m","e","t","a","d","a","t","a">>
General == <<"G","e","n","e","r","a","l">>

\* cell.get_text(strip=True)
get_text(cell) == Strip(cell.text, SpaceChars)

\* re.sub(r'\s+', ' ', text) after get_text(strip=True)
clean_text(cell) == CollapseSpace(get_text(cell))

\* the assignments specifications[category][name] = value, in order
RECURSIVE set_pairs(_, _, _)
set_pairs(inner, pairs, k) ==
    IF k > Len(pairs) THEN inner
    ELSE set_pairs(dict_set(inner, pairs[k][1], pairs[k][2]), pairs, k + 1)

\* table.find_previous('th') for the k-th table of the page: the header cell
\* of the nearest earlier table that has one
find_previous_th(tables, k) ==
    LET j == LastOf({i \in 1..(k - 1) : tables[i].th # NoText}, 0)
    IN  IF j = 0 THEN NoText ELSE tables[j].th

\* the name/value pairs the primary scan takes from a table: rows with two
\* or more cells whose first two texts are not empty
primary_pairs(table) ==
    LET rows == SelectSeq(table.rows, LAMBDA r :
                    /\ Len(r) >= 2
                    /\ clean_text(r[1]) # <<>>
                    /\ clean_text(r[2]) # <<>>)
    IN  [i \in DOMAIN rows |-> <<clean_text(rows[i][1]), clean_text(rows[i][2])>>]

\* what the scan of a page leaves when line 100 raises TypeError
Raised == [x \in {"raised"} |-> "TypeError"]

\* lines 74-78: the category of the k-th table of the page
category_of(tables, k) ==
    IF find_previous_th(tables, k) # NoText
    THEN Strip(find_previous_th(tables, k), SpaceChars)
    ELSE General

\* lines 81-100 for a category that holds no text: the category is made when
\* it is new, and takes the pairs of the table
fill_category(specifications, category, pairs) ==
    dict_set(specifications, category,
             set_pairs(IF category \in DOMAIN specifications
                       THEN specifications[category] ELSE EmptyDict,
                       pairs, 1))

\* the loop over soup.find_all('table').  texts are the keys of
\* specifications that hold a text and no mapping ('phone_name' after line
\* 67): such a key is "in specifications" at line 81, and the item
\* assignment of line 100 on its text raises TypeError.
RECURSIVE primary_scan(_, _, _, _)
primary_scan(specifications, texts, tables, k) ==
    IF k > Len(tables) THEN specifications
    ELSE IF category_of(tables, k) \notin texts
    THEN primary_scan(fill_category(specifications, category_of(tables, k),
                                    primary_pairs(tables[k])),
                      texts, tables, k + 1)
    ELSE IF primary_pairs(tables[k]) = <<>>
    THEN primary_scan(specifications, texts, tables, k + 1)
    ELSE Raised

\* zip(cells, values) of the rows from the k-th on, with the empty texts
\* left out
RECURSIVE alternate_pairs(_, _)
alternate_pairs(rows, k) ==
    IF k > Len(rows) THEN <<>>
    ELSE
        LET cells == SelectSeq(rows[k], LAMBDA c : c.class = "ttl")
            values == SelectSeq(rows[k], LAMBDA c : c.class = "nfo")
            n == IF Len(cells) <= Len(values) THEN Len(cells) ELSE Len(values)
            zipped == [i \in 1..n |-> <<get_text(cells[i]), get_text(values[i])>>]
            kept == SelectSeq(zipped, LAMBDA p : p[1] # <<>> /\ p[2] # <<>>)
        IN  kept \o alternate_pairs(rows, k + 1)

\* the loop over the tables of div#specs-list
RECURSIVE alternate_scan(_, _, _)
alternate_scan(specifications, tables, k) ==
    IF k > Len(tables) THEN specifications
    ELSE IF tables[k].th = NoText THEN alternate_scan(specifications, tables, k + 1)
    ELSE
        LET category == Strip(tables[k].th, SpaceChars)
            filled == dict_set(specifications, category,
                               set_pairs(EmptyDict, alternate_pairs(tables[k].rows, 1), 1))
        IN  alternate_scan(filled, tables, k + 1)

\* lines 62-100: the mapping after the title and the scan of the tables,
\* Raised when the scan raises
primary_result(page) ==
    LET titled == IF page.title # NoText
                  THEN dict_set(EmptyDict, PhoneNameKey, Strip(page.title, SpaceChars))
                  ELSE EmptyDict
    IN  primary_scan(titled, DOMAIN titled, page.tables, 1)

\* line 103: is the alternate parsing entered
alternate_attempted(page) ==
    /\ primary_result(page) # Raised
    /\ Cardinality(DOMAIN primary_result(page)) <= 1

\* scrape_specifications(spec_url, headers) on the fetched specification
\* page; a mapping is a function from its keys, so the order of its keys is
\* not kept
scrape_specifications(page) ==
    IF page.status # "ok" THEN NoneDict
    ELSE
        LET primary == primary_result(page)
            listed == SelectSeq(page.tables, LAMBDA t : t.in_list)
        IN  IF primary = Raised THEN NoneDict      \* line 132
            ELSE IF alternate_attempted(page) /\ page.specs_list
            THEN alternate_scan(primary, listed, 1)
            ELSE primary

\* the specification pages
Cell(class, text) == [class |-> class, text |-> text]
Table(in_list, th, rows) == [in_list |-> in_list, th |-> th, rows |-> rows]
TableNet == Table(TRUE, <<"N","e","t"," ">>, << <<Cell("ttl", <<"2","G"," "," ","b">>), Cell("nfo", <<"G","S","M">>)>> >>)
TableBody == Table(TRUE, <<"B","o","d","y">>, << <<Cell("ttl", <<"S","I","M">>), Cell("nfo", <<"N","a","n","o">>)>>,
                                    <<Cell("ttl", <<"I","P">>), Cell("nfo", <<" ">>)>> >>)
TablePlain == Table(FALSE, NoText, << <<Cell("", <<"P","r","i","c","e">>), Cell("", <<"1","0","0">>)>>,
                                     <<Cell("", <<"N","o","t","e">>)>> >>)
TableNamed == Table(FALSE, PhoneNameKey, << <<Cell("", <<"a">>), Cell("", <<"b">>)>> >>)
SpecPage(status, title, specs_list, tables) ==
    [status |-> status, title |-> title, specs_list |-> specs_list, tables |-> tables]
SpecPages ==
    { SpecPage("error", NoText, FALSE, <<>>),
      SpecPage("ok", NoText, FALSE, <<>>),
      SpecPage("ok", <<"Z"," ">>, FALSE, <<>>),
      SpecPage("ok", <<"Z"," ">>, TRUE, <<TableNet, TableBody>>),
      SpecPage("ok", NoText, TRUE, <<TableNet>>),
      SpecPage("ok", NoText, FALSE, <<TablePlain>>),
      SpecPage("ok", <<"Z"," ">>, FALSE, <<TableNamed, TablePlain>>) }

\* the page that is not fetched when no specification URL was found
NoPage == SpecPage("not fetched", NoText, FALSE, <<>>)

\* the header lines of the CSV file: the set of its column names
CsvHeaders == { {"review_url", "phone_name", "date"}, {"review_url"},
                {"phone_name", "date"} }

\* the lines of the CSV file: the field each holds for a column; the second
\* line ends after its review_url
CsvRows == { [phone_name |-> "A", review_url |-> "review-a", date |-> "01 Jan"],
             [review_url |-> "review-b"],
             [phone_name |-> "C", review_url |-> "", date |-> "03 Jan"] }
MaxCsvRows == 2
StartFroms == {0, 1}
MaxPhonesChoices == {0, 1, 2}       \* 0 stands for None
SpecDelay == 2

\* a row of csv.DictReader: a key for every column of the header, None
\* (restval) under the columns the line ends before
DictReader(header, line) ==
    [column \in header |-> IF column \in DOMAIN line THEN line[column] ELSE None]

\* row.get(column, 'Unknown')
get_or_unknown(row, column) ==
    IF column \in DOMAIN row THEN row[column] ELSE "Unknown"

\* lines 160-184: the reading of the CSV file and the two filters
read_phone_data(header, lines, start_from, max_phones) ==
    LET rows == [i \in DOMAIN lines |-> DictReader(header, lines[i])]
        with_url == SelectSeq(rows, LAMBDA row :
                        /\ "review_url" \in DOMAIN row
                        /\ row["review_url"] \notin {None, ""})
        read == [i \in DOMAIN with_url |->
                    [phone_name |-> get_or_unknown(with_url[i], "phone_name"),
                     review_url |-> with_url[i]["review_url"],
                     date |-> get_or_unknown(with_url[i], "date")]]
        started == IF start_from > 0 THEN From(read, start_from + 1) ELSE read
    IN  IF max_phones # 0 THEN Take(started, max_phones) ELSE started

\* the _metadata entry of a record
metadata_of(phone_info, spec_url) ==
    [phone_name |-> phone_info.phone_name,
     review_url |-> phone_info.review_url,
     spec_url |-> spec_url,
     date |-> phone_info.date]

\* a faulty test that takes every phone with a specification URL as extracted
extracted_any(spec_url, specifications) == spec_url # NoLink

\* the tests "if spec_url:" and "if specifications:"
extracted(spec_url, specifications) ==
    /\ spec_url # NoLink
    /\ specifications # NoneDict
    /\ DOMAIN specifications # {}

SaveOutcomes == {"ok", "open_error", "write_error"}

\* save_to_json(data, filename): the content of the file after the call; an
\* error while writing leaves a truncated file
save_to_json(data, outcome, file) ==
    CASE outcome = "ok" -> [state |-> "written", data |-> data]
      [] outcome = "open_error" -> file
      [] outcome = "write_error" -> [state |-> "partial", data |-> <<>>]

AbsentFile == [state |-> "absent", data |-> <<>>]

ExtractorStart ==
    /\ \E csv_ok \in BOOLEAN : \E header \in CsvHeaders :
       \E lines \in UNION { [1..n -> CsvRows] : n \in 0..MaxCsvRows } :
       \E start_from \in StartFroms : \E max_phones \in MaxPhonesChoices :
          /\ phone_data = IF csv_ok
                          THEN read_phone_data(header, lines, start_from, max_phones)
                          ELSE <<>>
          /\ xpc = IF csv_ok THEN "loop" ELSE "returned"
    /\ xidx = 1
    /\ all_specifications = <<>>
    /\ output_file = AbsentFile
    /\ lookups = <<>>
    /\ xsleeps = <<>>

\* find_spec_url_from_review on each of the review pages and
\* scrape_specifications on each of the specification pages
spec_url_of == [page \in ReviewPages |-> find_spec_url_from_review(page)]
specifications_of == [page \in SpecPages |-> scrape_specifications(page)]

\* one iteration of the loop of scrape_specs_from_csv
ExtractPhone ==
    /\ xpc = "loop"
    /\ xidx <= Len(phone_data)
    /\ \E review_page \in ReviewPages :
          LET phone_info == phone_data[xidx]
              spec_url == spec_url_of[review_page]
          IN  \E spec_page \in IF spec_url # NoLink THEN SpecPages ELSE {NoPage} :
                LET specifications == IF spec_url # NoLink
                                      THEN specifications_of[spec_page]
                                      ELSE NoneDict
                    ok == extracted(spec_url, specifications)
                    record == dict_set(specifications, MetadataKey,
                                       metadata_of(phone_info, spec_url))
                    grown == IF ok THEN Append(all_specifications, record)
                             ELSE all_specifications
                IN  /\ all_specifications' = grown
                    /\ \E save \in IF ok THEN SaveOutcomes ELSE {"not called"} :
                          output_file' = IF ok THEN save_to_json(grown, save, output_file)
                                         ELSE output_file
                    /\ lookups' = Append(lookups, [spec_url |-> spec_url,
                                                   specifications |-> specifications])
    /\ xsleeps' = IF xidx < Len(phone_data) THEN Append(xsleeps, SpecDelay) ELSE xsleeps
    /\ xidx' = xidx + 1
    /\ UNCHANGED <<phone_data, xpc>>
    /\ UNCHANGED <<textVars, listerVars, discoveryVars, fetcherVars,
                   saveVars, scanVars>>

ExtractorReturn ==
    /\ xpc = "loop"
    /\ xidx > Len(phone_data)
    /\ xpc' = "returned"
    /\ UNCHANGED <<phone_data, xidx, all_specifications, output_file, lookups, xsleeps>>
    /\ UNCHANGED <<textVars, listerVars, discoveryVars, fetcherVars,
                   saveVars, scanVars>>

ExtractorInit ==
    /\ ExtractorStart /\ TextIdle /\ ListerIdle /\ DiscoveryIdle /\ FetcherIdle
    /\ SaveIdle /\ ScanIdle
ExtractorNext == ExtractPhone \/ ExtractorReturn
SpecExtractor == ExtractorInit /\ [][ExtractorNext]_vars

\* --- properties of the extractor ---
\* the specifications of a phone came out: a URL was resolved and the
\* extraction gave a mapping that is not empty
Succeeded(l) ==
    /\ l.spec_url # NoLink
    /\ l.specifications # NoneDict
    /\ DOMAIN l.specifications # {}

\* the positions, in input order, of the handled phones that succeeded
SucceededPhones ==
    LET handled == [i \in DOMAIN lookups |-> i]
    IN  SelectSeq(handled, LAMBDA i : Succeeded(lookups[i]))

\* C10: in scrape_specs_from_csv a phone whose spec-URL resolution or
\* specification extraction fails (exception, no matching link, or an empty
\* extraction) appends no record and the loop goes on to the next phone: the
\* accumulated sequence is exactly the successfully extracted phones handled
\* so far, in input order, each with the _metadata of its own input row and
\* its own resolved spec_url, and the returned sequence covers every phone.
C10_ReturnsSuccessfulPhonesInOrder ==
    /\ Len(lookups) = xidx - 1
    /\ xpc = "returned" => Len(lookups) = Len(phone_data)
    /\ Len(all_specifications) = Len(SucceededPhones)
    /\ \A j \in DOMAIN all_specifications :
          LET i == SucceededPhones[j]
              record == all_specifications[j]
          IN  /\ DOMAIN record = DOMAIN lookups[i].specifications \cup {MetadataKey}
              /\ \A key \in DOMAIN lookups[i].specifications :
                    record[key] = lookups[i].specifications[key]
              /\ record[MetadataKey].phone_name = phone_data[i].phone_name
              /\ record[MetadataKey].review_url = phone_data[i].review_url
              /\ record[MetadataKey].date = phone_data[i].date
              /\ record[MetadataKey].spec_url = lookups[i].spec_url

\* C10 witness: the run returned after two phones of different rows; the
\* first had no specification link, the second was extracted
C10_Witness ==
    /\ xpc = "returned"
    /\ Len(phone_data) = 2
    /\ phone_data[1] # phone_data[2]
    /\ ~Succeeded(lookups[1])
    /\ Succeeded(lookups[2])
    /\ Len(all_specifications) = 1
    /\ all_specifications[1][MetadataKey].review_url = phone_data[2].review_url

\* C11: in scrape_specs_from_csv the JSON output file is rewritten after
\* every phone with the full accumulated sequence: at every phone boundary
\* (after phone i is handled, skipped phones and the case where no phone has
\* succeeded yet included) the content of the file equals the accumulated
\* sequence of this run, never a partial or older one.
C11_FileHoldsAccumulated ==
    (xpc \in {"loop", "returned"} /\ xidx > 1) =>
        /\ output_file.state = "written"
        /\ output_file.data = all_specifications

\* --- more properties of the fetcher ---
\* the finished phones whose name is the given one and that got an image
CallsWithImages(name) ==
    {k \in DOMAIN calls : phones[calls[k].phone].phone_name = name /\ calls[k].paths # <<>>}

\* C12: in process_phones_from_csv a phone is skipped (counted as failed, no
\* manifest entry) when its pictures URL cannot be derived or no image URL
\* is discovered; failures of single image downloads only reduce the image
\* count of the phone and never make it skipped or left out of the manifest.
C12_SkippedOnlyWithoutUrls ==
    /\ \A k \in DOMAIN calls :
          calls[k].urls # <<>> => phones[calls[k].phone].phone_name \in DOMAIN results
    /\ failed = Cardinality({k \in DOMAIN calls : calls[k].urls = <<>>})
    /\ successful = Cardinality({k \in DOMAIN calls : calls[k].urls # <<>>})
    /\ \A name \in DOMAIN results : CallsWithImages(name) # {}

(***************************************************************************)
(* Review Lister: the records of a page and their persistence              *)
(* (phone_review_url_scraper.py, scrape_single_page lines 32-61,           *)
(* save_to_json, save_to_csv)                                              *)
(***************************************************************************)
MaxItems == 2      \* review items of the scraped pages

\* the keys of a record, in the order in which lines 38-58 insert them
FieldOrder == <<"phone_name", "review_url", "image_url", "image_alt", "date", "snippet">>

\* a review item of a page: has it a title element (with a link or not), an
\* image, a date element, a snippet paragraph
ReviewItems ==
    [title : {"none", "plain", "linked"}, img : BOOLEAN, date : BOOLEAN,
     snippet : BOOLEAN]

\* the key set of the review_data that lines 33-58 build for an item
review_keys(item) ==
    (IF item.title # "none" THEN {"phone_name"} ELSE {})
    \cup (IF item.title = "linked" THEN {"review_url"} ELSE {})
    \cup (IF item.img THEN {"image_url", "image_alt"} ELSE {})
    \cup (IF item.date THEN {"date"} ELSE {})
    \cup (IF item.snippet THEN {"snippet"} ELSE {})

\* review_data of an item: every field found holds the text found for it
review_data(item) == [k \in review_keys(item) |-> "text"]

\* lines 32-61: the records of the items, the empty ones left out
reviews_of(items) ==
    LET kept == SelectSeq(items, LAMBDA it : review_keys(it) # {})
    IN  [i \in DOMAIN kept |-> review_data(kept[i])]

\* dict.keys(): the keys of a record in insertion order
keys_of(record) == SelectSeq(FieldOrder, LAMBDA k : k \in DOMAIN record)

\* json.dump of one record: its key/value pairs in insertion order
json_record(record) ==
    [i \in DOMAIN keys_of(record) |-> <<keys_of(record)[i], record[keys_of(record)[i]]>>]

\* what happens to the file of a save: it is written, open() raises, or a
\* write raises after open() emptied the file, with so many whole lines (of
\* the CSV) or records (of the JSON text) in the file at most
SaveIo == [kind : {"ok", "open_error", "write_error"}, whole : 0..MaxItems]

\* save_to_json(data, filename): <<return value, file>>; a write that raises
\* leaves the beginning of the text in place of what the file held
save_reviews_to_json(data, io, file) ==
    CASE io.kind = "ok" ->
            <<"True", [state |-> "written",
                       data |-> [i \in DOMAIN data |-> json_record(data[i])]]>>
      [] io.kind = "open_error" -> <<"False", file>>
      [] io.kind = "write_error" ->
            <<"False", [state |-> "truncated",
                        data |-> [i \in {j \in DOMAIN data : j <= io.whole} |->
                                     json_record(data[i])]]>>

\* DictWriter._dict_to_list does not raise: no key of the record is outside
\* fieldnames
row_fits(record, header) == DOMAIN record \subseteq Range(header)

\* DictWriter._dict_to_list: the cells of a row, '' for a key the record
\* does not have
csv_row(record, header) ==
    [i \in DOMAIN header |-> IF header[i] \in DOMAIN record THEN record[header[i]] ELSE ""]

\* the number of rows writerows hands to the file: those before the first
\* one that raises
rows_written(data, header) ==
    LET bad == FirstOf({i \in DOMAIN data : ~row_fits(data[i], header)}, 0)
    IN  IF bad = 0 THEN Len(data) ELSE bad - 1

\* the file that holds the first lines of the text: the header line and the
\* rows after it
csv_lines(state, data, header, lines) ==
    [state |-> state,
     header |-> IF lines = 0 THEN <<>> ELSE header,
     rows |-> [i \in {j \in DOMAIN data : j < lines} |-> csv_row(data[i], header)]]

\* save_to_csv(data, filename): <<return value, file>>; the rows before the
\* first one that raises are in the file when it is closed, and a write that
\* raises leaves the beginning of the text
save_to_csv(data, io, file) ==
    IF data = <<>> THEN <<"False", file>>
    ELSE
        CASE io.kind = "open_error" -> <<"False", file>>
          [] io.kind = "write_error" ->
                <<"False", csv_lines("truncated", data, keys_of(data[1]),
                                     IF io.whole <= rows_written(data, keys_of(data[1]))
                                     THEN io.whole
                                     ELSE rows_written(data, keys_of(data[1])))>>
          [] io.kind = "ok" ->
                IF rows_written(data, keys_of(data[1])) = Len(data)
                THEN <<"True", csv_lines("written", data, keys_of(data[1]), Len(data) + 1)>>
                ELSE <<"False", csv_lines("partial", data, keys_of(data[1]),
                                          rows_written(data, keys_of(data[1])) + 1)>>

SaveStart ==
    /\ \E items \in UNION { [1..n -> ReviewItems] : n \in 0..MaxItems } :
          reviews_data = reviews_of(items)
    /\ json_file = [state |-> "absent", data |-> <<>>]
    /\ csv_file = [state |-> "absent", header |-> <<>>, rows |-> <<>>]
    /\ json_saved = "not called"
    /\ csv_saved = "not called"
    /\ svpc = "scraped"

SaveToJson ==
    /\ svpc = "scraped"
    /\ \E io \in SaveIo :
          LET r == save_reviews_to_json(reviews_data, io, json_file)
          IN  /\ json_saved' = r[1]
              /\ json_file' = r[2]
    /\ svpc' = "json"
    /\ UNCHANGED <<reviews_data, csv_file, csv_saved>>
    /\ UNCHANGED <<textVars, listerVars, discoveryVars, fetcherVars, extractorVars,
                   scanVars>>

SaveToCsv ==
    /\ svpc = "json"
    /\ \E io \in SaveIo :
          LET r == save_to_csv(reviews_data, io, csv_file)
          IN  /\ csv_saved' = r[1]
              /\ csv_file' = r[2]
    /\ svpc' = "saved"
    /\ UNCHANGED <<reviews_data, json_file, json_saved>>
    /\ UNCHANGED <<textVars, listerVars, discoveryVars, fetcherVars, extractorVars,
                   scanVars>>

SaveInit ==
    /\ SaveStart /\ TextIdle /\ ListerIdle /\ DiscoveryIdle /\ FetcherIdle
    /\ ExtractorIdle /\ ScanIdle
SaveNext == SaveToJson \/ SaveToCsv
SpecSave == SaveInit /\ [][SaveNext]_vars

\* C13: for every non-empty sequence of review records (records may carry
\* different subsets of the fields), save_to_json and save_to_csv persist
\* the same records in the same order: the CSV has one row per record, in
\* sequence order, under a header made of the keys of the first record, and
\* save_to_csv reports success (the files can be opened for writing).
C13_SameRecordsInBothFiles ==
    ( /\ svpc = "saved"
      /\ reviews_data # <<>>
      /\ json_saved = "True"
      /\ csv_file.state \notin {"absent", "truncated"} )
    => /\ Len(json_file.data) = Len(reviews_data)
       /\ csv_saved = "True"
       /\ csv_file.header = keys_of(reviews_data[1])
       /\ Len(csv_file.rows) = Len(reviews_data)
       /\ \A i \in DOMAIN csv_file.rows :
             \A k \in DOMAIN csv_file.header :
                 csv_file.rows[i][k] =
                     IF csv_file.header[k] \in DOMAIN reviews_data[i]
                     THEN reviews_data[i][csv_file.header[k]] ELSE ""

\* --- more properties of the lister ---
\* C14: with a positive max_pages = M the run ends after fetching at most M
\* pages, namely the page numbers start_page, start_page + 1, ... in
\* ascending order, each fetched once, whatever the pages contain; page 1 is
\* requested at the base URL verbatim and page N > 1 at the base URL plus
\* the page query parameter with value N.
C14_AtMostMaxPagesFetched ==
    /\ max_pages > 0 =>
          /\ Len(fetched) <= max_pages
          /\ lpc = "loop" => Len(fetched) < max_pages
    /\ \A i \in DOMAIN fetched :
          /\ fetched[i].page_num = start_page + i - 1
          /\ fetched[i].url = IF fetched[i].page_num = 1 THEN <<"base_url">>
                              ELSE <<"base_url", "?iPage=", fetched[i].page_num>>

\* C14 witness: a run from page 1 with max_pages = 3 returned after three
\* pages with records
C14_Witness ==
    /\ lpc = "returned"
    /\ max_pages = 3 /\ start_page = 1
    /\ Len(fetched) = 3
    /\ \A i \in DOMAIN fetched : fetched[i].page.status = "ok" /\ fetched[i].page.nrecs = 1
    /\ fetched[3].url = <<"base_url", "?iPage=", 3>>

\* C16: with delay > 0 exactly one sleep of delay seconds happens between
\* every two consecutive page fetches and none after the last fetched page,
\* whether the run ends by the empty-page rule or by reaching max_pages.
C16_OneSleepBetweenFetches ==
    delay > 0 =>
        /\ \A i \in DOMAIN sleeps : sleeps[i] = delay
        /\ lpc = "loop" => Len(sleeps) = Len(fetched)
        /\ lpc # "loop" => Len(sleeps) = Len(fetched) - 1

\* C16 witness: a run with delay 2 that ended by the page limit after three
\* fetches slept twice
C16_Witness ==
    /\ lpc = "returned"
    /\ delay = 2
    /\ max_pages = 3
    /\ Len(fetched) = 3
    /\ fetched[3].page.nrecs = 1
    /\ sleeps = <<2, 2>>

\* --- the manifest and the pauses of the fetcher ---
LastCallWithImages(name) == LastOf(CallsWithImages(name), 0)

\* C15: the manifest is keyed by the original phone_name: when several
\* processed phones share a name, a later phone that downloads at least one
\* image replaces the earlier entry, so the entry of a name is that of the
\* last phone of that name that got an image (a later phone of that name
\* that got none leaves the entry in place).
C15_LastPhoneWithImagesWins ==
    /\ \A k \in DOMAIN calls :
          calls[k].paths # <<>> => phones[calls[k].phone].phone_name \in DOMAIN results
    /\ \A name \in DOMAIN results :
          /\ CallsWithImages(name) # {}
          /\ LET c == calls[LastCallWithImages(name)]
             IN  /\ results[name].image_paths = c.paths
                 /\ results[name].image_count = Len(c.paths)
                 /\ results[name].spec_url = phones[c.phone].spec_url

\* C15 witness: two phones of one name; the first got two images, the
\* second one image, and the entry is that of the second
C15_Witness ==
    /\ bpc = "returned"
    /\ Len(phones) = 2
    /\ phones[1].phone_name = phones[2].phone_name
    /\ Len(calls[1].paths) = 2
    /\ Len(calls[2].paths) = 1
    /\ DOMAIN results = {phones[1].phone_name}
    /\ results[phones[1].phone_name].image_count = 1

PhonePauses(k) == {i \in DOMAIN pauses : pauses[i].after = "phone" /\ pauses[i].phone = k}
ImagePauses(k) == {i \in DOMAIN pauses : pauses[i].after = "image" /\ pauses[i].phone = k}

\* C17: after each processed phone, succeeded or failed, exactly one sleep of
\* the configured delay happens before the next phone starts and none after
\* the last phone of the batch; inside a phone one 0.5-second pause follows
\* every image download attempt whatever its outcome.
C17_PausesOfTheBatch ==
    /\ \A k \in 1..Len(phones) :
          /\ Cardinality(PhonePauses(k)) =
                 IF k \in DOMAIN calls /\ k < Len(phones) THEN 1 ELSE 0
          /\ Cardinality(ImagePauses(k)) = Len(AttemptsOf(k))
          /\ \A i \in PhonePauses(k) : \A j \in ImagePauses(k) : j < i
    /\ \A i \in DOMAIN pauses :
          /\ pauses[i].tenths = IF pauses[i].after = "phone" THEN 10 * phone_delay ELSE 5
          /\ \A j \in DOMAIN pauses : i < j => pauses[i].phone <= pauses[j].phone

\* C17 witness: a batch of two phones returned; the first phone failed
\* after a download attempt that raised, the delay followed it, and the
\* second phone was then handled
C17_Witness ==
    /\ bpc = "returned"
    /\ Len(phones) = 2
    /\ Len(pauses) >= 3
    /\ pauses[1] = [after |-> "image", phone |-> 1, tenths |-> 5]
    /\ pauses[2] = [after |-> "phone", phone |-> 1, tenths |-> 30]
    /\ pauses[3].after = "image" /\ pauses[3].phone = 2
    /\ attempts[1].wrote = "nothing"
    /\ failed >= 1

\* the attempt of the last phone of the name that wrote the path
AttemptFor(name, path) ==
    LET c == calls[LastCallWithImages(name)]
        at == AttemptsOf(c.phone)
    IN  at[FirstOf({i \in DOMAIN at : at[i].path = path}, 1)]

\* C19: every manifest entry has image_count = length of image_paths,
\* 1 <= image_count <= max_images_per_phone, its paths are pairwise distinct
\* and in discovered-URL order, and every listed path was reported by
\* download_image as an existing non-empty file when it was added.
C19_ManifestEntryWellFormed ==
    \A name \in DOMAIN results :
        LET paths == results[name].image_paths IN
        /\ results[name].image_count = Len(paths)
        /\ 1 <= results[name].image_count
        /\ results[name].image_count <= max_images_per_phone
        /\ \A i, j \in DOMAIN paths : i # j => paths[i] # paths[j]
        /\ \A i, j \in DOMAIN paths :
              i < j => AttemptFor(name, paths[i]).pos < AttemptFor(name, paths[j]).pos
        /\ \A i \in DOMAIN paths :
              /\ AttemptFor(name, paths[i]).path = paths[i]
              /\ AttemptFor(name, paths[i]).returned
              /\ AttemptFor(name, paths[i]).wrote = "full"

\* C19 witness: an entry of two images, the main one and angle_2
C19_Witness ==
    /\ bpc = "returned"
    /\ \E name \in DOMAIN results :
          /\ results[name].image_count = 2
          /\ max_images_per_phone = 2
          /\ Take(results[name].image_paths[1].file, 4) = MainWord
          /\ Take(results[name].image_paths[2].file, 6) = AngleWord

\* C20: two manifest entries with different phone_name keys never list the
\* same local file path, phones whose names clean to the same safe_name
\* directory included.
C20_EntriesShareNoPath ==
    \A n1, n2 \in DOMAIN results :
        n1 # n2 =>
            Range(results[n1].image_paths) \cap Range(results[n2].image_paths) = {}

(***************************************************************************)
(* scrape_specifications on one page (phone_specs_scraper.py)              *)
(***************************************************************************)
MaxTables == 3     \* tables of a specification page

\* the pages: with or without title, with or without the specs container
\* (a table inside the container needs the container)
ScanPages ==
    { SpecPage("ok", title, specs_list, tables) :
        title \in {NoText, <<"Z", " ">>},
        specs_list \in BOOLEAN,
        tables \in UNION { [1..n -> {TableNet, TableBody, TablePlain, TableNamed}] :
                               n \in 0..MaxTables } }

ScanStart ==
    /\ scan_page \in {pg \in ScanPages :
                         \A i \in DOMAIN pg.tables : pg.tables[i].in_list => pg.specs_list}
                     \cup {SpecPage("error", NoText, FALSE, <<>>)}
    /\ scan_result = EmptyDict
    /\ alternate_ran = FALSE
    /\ scpc = "start"

\* the call scrape_specifications(spec_url, headers)
ScanCall ==
    /\ scpc = "start"
    /\ scan_result' = scrape_specifications(scan_page)
    /\ alternate_ran' = (scan_page.status = "ok" /\ alternate_attempted(scan_page))
    /\ scpc' = "called"
    /\ UNCHANGED scan_page
    /\ UNCHANGED <<textVars, listerVars, discoveryVars, fetcherVars, extractorVars,
                   saveVars>>

ScanInit ==
    /\ ScanStart /\ TextIdle /\ ListerIdle /\ DiscoveryIdle /\ FetcherIdle
    /\ ExtractorIdle /\ SaveIdle
ScanNext == ScanCall
SpecScan == ScanInit /\ [][ScanNext]_vars

\* the categories the primary table scan of a page produces: the header
\* texts that precede its tables, "General" where there is none
PrimaryCategories(page) == { category_of(page.tables, k) : k \in DOMAIN page.tables }

\* C18: in scrape_specifications the alternate extraction is attempted
\* exactly when the primary table scan produced at most one category,
\* whether the page title element was found or not: it runs when the scan
\* found zero or one category and does not run when it found two or more.
C18_AlternateIffAtMostOneCategory ==
    (scpc = "called" /\ scan_page.status = "ok") =>
        (alternate_ran <=> Cardinality(PrimaryCategories(scan_page)) <= 1)

====
